---- MODULE Spec2Model ----
(***************************************************************************)
(* A model of superconfig's layer-resolution protocol.                     *)
(*                                                                         *)
(*   Spec       the layer chain of config.py: LayerCake, LinkedLayer,      *)
(*              TerminalLayer, NullLayer, layer_stack and the Config       *)
(*              facade, over layers speaking the (found, cont, value)      *)
(*              protocol of config.py.                                     *)
(*   SmartSpec  the pattern dispatch of smarts.py: SmartLayer.__setitem__  *)
(*              and SmartLayer.get_item over getters returning             *)
(*              config.Response values.                                    *)
(*   ExpandSpec the same dispatch over getters built by builders.value     *)
(*              with expand_result=True, which expand their result with    *)
(*              helpers.expand.                                            *)
(*   GetSpec    the layer chain of Spec with both facade methods,          *)
(*              Config.__getitem__ and Config.get.                         *)
(*   FacadeSpec a Config over a SmartLayer on top of further layers, with  *)
(*              the getters of smarts.py (GetterStack, Env, Transform,     *)
(*              IgnoreTransformErrors, ...) and of builders.value, and     *)
(*              os.environ changing between lookups.                       *)
(*   KeyExpandSpec  KeyExpansionLayer and ExpansionGetter over a layer     *)
(*              that resolves the placeholders of helpers.expand.          *)
(*   CacheSpec  CacheLayer over a SmartLayer of Counter and CacheGetter    *)
(*              getters, with the clock of time.time() moving on.          *)
(*   CacheChainSpec  the same layers looked up through the chain that      *)
(*              layered_config links them into.                            *)
(*   RefreshSpec  AutoRefreshGetter over a FileFetcher, the file being     *)
(*              written, removed and made unreadable between reads.        *)
(*   RaceSpec   two threads in AutoRefreshGetter.read, statement by        *)
(*              statement, over the file of RefreshSpec.                   *)
(*   GraftSpec  the dispatch of SmartSpec over Graft getters, which        *)
(*              look the rest of the key up in a layer of their own.       *)
(*                                                                         *)
(* Strings are sequences of one-character strings, so that split, join,    *)
(* replace and the compiled patterns are computed and not assumed.         *)
(***************************************************************************)
EXTENDS Integers, Sequences, FiniteSets, TLC

VARIABLES
    layers,                 \* LayerCake.layers: the linked layers, topmost first
    pushed,                 \* history: the layers handed to LayerCake.push, in call order
    stack_list,             \* history: the list handed to layer_stack, <<>> if none
    from_stack,             \* history: the cake is exactly what layer_stack returned
    q_key,                  \* the key of the last Config lookup
    q_result,               \* what the root layer returned for it
    q_trace,                \* the layers whose get_item ran during it, in call order
    q_out,                  \* what the facade did: a value or an exception
    q_call,                 \* the facade method called and its default
    constant_key_getters,   \* SmartLayer.constant_key_getters
    key_pattern_getters,    \* SmartLayer.key_pattern_getters (a defaultdict(list))
    context,                \* the Context handed to the lookup, with os.environ
    below,                  \* the layers beneath the SmartLayer
    s_key,                  \* the key of the last SmartLayer.get_item
    s_resp,                 \* the Response it returned
    s_calls,                \* the getter reads it made, in call order
    expanded,               \* what helpers.expand gave the last KeyExpansionLayer.get_item
    now,                    \* time.time()
    cache,                  \* the CacheLayer: its cache and its TTLs
    source,                 \* the getters of the SmartLayer beneath the CacheLayer
    c_read,                 \* the last lookup through the CacheLayer
    remote,                 \* the file a FileFetcher reads
    loader,                 \* the fields of an AutoRefreshGetter and of its FileFetcher
    r_read,                 \* the last AutoRefreshGetter.read
    readers,                \* the threads reading the AutoRefreshGetter: where each is in read
    constructed             \* history: the layers layer_constructor has returned

chain_vars ==
    <<layers, pushed, stack_list, from_stack, q_key, q_result, q_trace, q_out, q_call>>
smart_vars ==
    <<constant_key_getters, key_pattern_getters, context, below, s_key, s_resp, s_calls,
      expanded>>
time_vars == <<now, cache, source, c_read, remote, loader, r_read, readers, constructed>>
vars == <<chain_vars, smart_vars, time_vars>>

---------------------------------------------------------------------------
(* Bounds. *)

MaxLayers == 3

---------------------------------------------------------------------------
(* Strings and values. *)

\* Python's None, kept apart from every string over the alphabet.
None == <<"None">>

\* A lookup that has not happened yet.
NoKey == <<"NoKey">>

Min(S) == CHOOSE x \in S : \A y \in S : x <= y

Max(S) == CHOOSE x \in S : \A y \in S : x >= y

\* reversed(xs)
RECURSIVE reversed(_)
reversed(xs) == IF xs = <<>> THEN <<>> ELSE Append(reversed(Tail(xs)), Head(xs))

\* All sequences over S of length at most n.
SeqsUpTo(S, n) == UNION {[1..m -> S] : m \in 0..n}

---------------------------------------------------------------------------
(* config.py: the tuple protocol. *)

RR_NotFound == 0
RR_Found == 1

Cont_Stop == 0
Cont_Go == 1
Cont_NextLayer == 2

\* One (found, cont, value) answer of a Layer.get_item.
Tuple(found, cont, value) == [found |-> found, cont |-> cont, value |-> value]

\* IndexLayer.get_item
IndexLayer_get_item(layer, key) ==
    IF key \notin DOMAIN layer.map
    THEN Tuple(RR_NotFound, Cont_NextLayer, None)
    ELSE Tuple(RR_Found, Cont_Go, layer.map[key])

\* ConstantLayer.get_item
ConstantLayer_get_item(layer, key) == Tuple(RR_Found, Cont_Go, layer.value)

\* NullLayer.get_item
NullLayer_get_item(key) == Tuple(RR_NotFound, Cont_Go, None)

\* Any other implementation of Layer.get_item: its answer per key.
Layer_get_item(layer, key) ==
    CASE layer.type = "IndexLayer" -> IndexLayer_get_item(layer, key)
      [] layer.type = "ConstantLayer" -> ConstantLayer_get_item(layer, key)
      [] OTHER -> layer.table[key]

\* TerminalLayer.get_item with the lower layer the Config facade hands down.
TerminalLayer_get_item(key) == [res |-> NullLayer_get_item(key), trace |-> <<>>]

\* LinkedLayer.get_item that never falls through to its sublayer.
LinkedLayer_get_item_no_fallthrough(ls, key) ==
    IF ls = <<>> THEN TerminalLayer_get_item(key)
    ELSE [res |-> Layer_get_item(Head(ls), key), trace |-> <<Head(ls)>>]

\* LinkedLayer.get_item that does not look at cont.
RECURSIVE LinkedLayer_get_item_ignores_stop(_, _)
LinkedLayer_get_item_ignores_stop(ls, key) ==
    IF ls = <<>> THEN TerminalLayer_get_item(key)
    ELSE LET r == Layer_get_item(Head(ls), key) IN
         IF r.found = RR_Found
         THEN [res |-> r, trace |-> <<Head(ls)>>]
         ELSE LET sub == LinkedLayer_get_item_ignores_stop(Tail(ls), key) IN
              [res |-> sub.res, trace |-> <<Head(ls)>> \o sub.trace]

\* LinkedLayer.get_item: ls is the chain of LinkedLayers, Head(ls) being
\* self.layer and Tail(ls) self.sublayer; the empty chain is TerminalLayer.
RECURSIVE LinkedLayer_get_item(_, _)
LinkedLayer_get_item(ls, key) ==
    IF ls = <<>> THEN TerminalLayer_get_item(key)
    ELSE LET r == Layer_get_item(Head(ls), key) IN
         IF r.found = RR_Found
         THEN [res |-> r, trace |-> <<Head(ls)>>]
         ELSE IF r.cont = Cont_Stop
         THEN [res |-> r, trace |-> <<Head(ls)>>]
         ELSE LET sub == LinkedLayer_get_item(Tail(ls), key) IN
              [res |-> sub.res, trace |-> <<Head(ls)>> \o sub.trace]

\* LayerCake.push that links the new layer beneath the existing ones.
LayerCake_push_bottom(ls, layer) == Append(ls, layer)

\* LayerCake.push: self.layers = LinkedLayer(layer, self.layers)
LayerCake_push(ls, layer) == <<layer>> \o ls

\* The loop of layer_stack: stack.push(layer) for each layer of xs in turn.
RECURSIVE push_all(_, _)
push_all(stack, xs) ==
    IF xs = <<>> THEN stack
    ELSE push_all(LayerCake_push(stack, Head(xs)), Tail(xs))

\* layer_stack that pushes in list order.
layer_stack_unreversed(list) == push_all(<<>>, list)

\* layer_stack: a fresh LayerCake, then push over reversed(layers)
layer_stack(list) == push_all(<<>>, reversed(list))

\* Config.__getitem__ on the root layer's answer.
Config_getitem(res) ==
    IF res.found = RR_Found THEN [kind |-> "value", value |-> res.value]
    ELSE IF res.found = RR_NotFound THEN [kind |-> "KeyError", value |-> None]
    ELSE [kind |-> "Exception", value |-> None]

---------------------------------------------------------------------------
(* Strings as the code handles them. *)

\* The first index of character c in s, 0 if there is none.
IndexOf(s, c) ==
    LET D == {i \in 1..Len(s) : s[i] = c} IN IF D = {} THEN 0 ELSE Min(D)

\* sub in s
Contains(s, sub) ==
    \E i \in 1..(Len(s) - Len(sub) + 1) : SubSeq(s, i, i + Len(sub) - 1) = sub

\* s.split(".")
RECURSIVE split(_)
split(s) ==
    LET i == IndexOf(s, ".") IN
    IF i = 0 THEN <<s>>
    ELSE <<SubSeq(s, 1, i - 1)>> \o split(SubSeq(s, i + 1, Len(s)))

\* ".".join(xs)
RECURSIVE join(_)
join(xs) ==
    IF xs = <<>> THEN <<>>
    ELSE IF Len(xs) = 1 THEN xs[1]
    ELSE xs[1] \o <<".">> \o join(Tail(xs))

---------------------------------------------------------------------------
(* config.py: Response. *)

\* expire=None
NoExpire == -1

\* The Response named tuple; raised names an exception that left the call
\* in place of a Response ("none" when one was returned).
Response(found, stop, next_layer, value, expire) ==
    [found |-> found, stop |-> stop, next_layer |-> next_layer,
     value |-> value, expire |-> expire, raised |-> "none"]

\* Response.found(value)
Response_found(value) == Response(TRUE, FALSE, FALSE, value, NoExpire)

\* Response.not_found
Response_not_found == Response(FALSE, FALSE, FALSE, None, NoExpire)

\* Response.not_found_stop
Response_not_found_stop == Response(FALSE, TRUE, FALSE, None, NoExpire)

\* Response.not_found_next
Response_not_found_next == Response(FALSE, FALSE, TRUE, None, NoExpire)

\* Response.found_next(value): found, and other layers may still override.
found_next(value) == Response(TRUE, FALSE, TRUE, value, NoExpire)

\* No response: the read raised exc, which no code on the way up catches.
Raised(exc) ==
    [found |-> FALSE, stop |-> FALSE, next_layer |-> FALSE, value |-> None,
     expire |-> NoExpire, raised |-> exc]

\* resp.new_value(x): the response with x for its value.
new_value(resp, x) == [resp EXCEPT !.value = x]

\* resp.is_found
is_found(resp) == resp.found

\* resp.must_stop
must_stop(resp) == resp.stop

\* resp.go_next_layer
go_next_layer(resp) == resp.next_layer

\* The call did not return: an exception is on its way up.
has_raised(resp) == resp.raised # "none"

---------------------------------------------------------------------------
(* smarts.py: getters. *)

RECURSIVE Getter_read(_, _, _, _, _)
RECURSIVE SmartLayer_get_item(_, _, _, _, _)
RECURSIVE get_item(_, _, _, _)
RECURSIVE KeyExpansionLayer_get_item(_, _, _)

\* config.NullLayer, as handed down for a lower layer.
NullLayer == [type |-> "NullLayer"]

\* LayerCake().layers before any push.
TerminalLayer == [type |-> "TerminalLayer"]

\* LinkedLayer(layer, sublayer)
LinkedLayer(layer, sublayer) ==
    [type |-> "LinkedLayer", layer |-> layer, sublayer |-> sublayer]

\* IndexGetterLayer.get_item
IndexGetterLayer_get_item(layer, key, ctx, lower_layer) ==
    IF key \notin DOMAIN layer.map
    THEN Response_not_found_next
    ELSE Getter_read(layer.map[key], key, <<>>, ctx, lower_layer)

\* NullLayer.get_item as a layer answering with a Response: no opinion.
NullLayer_get_item_response == Response_not_found

\* LinkedLayer.get_item over layers answering with a Response: the layer's
\* answer if it is found or a stop, the sublayer's otherwise.
LinkedLayer_get_item_response(linked, key, ctx, lower_layer) ==
    LET After(resp) ==
            IF has_raised(resp) \/ is_found(resp) \/ must_stop(resp) THEN resp
            ELSE get_item(linked.sublayer, key, ctx, lower_layer)
    IN After(get_item(linked.layer, key, ctx, linked.sublayer))

\* layer.get_item(key, context, lower_layer), by the layer's class.
get_item(layer, key, ctx, lower_layer) ==
    CASE layer.type = "NullLayer" -> NullLayer_get_item_response
      [] layer.type = "TerminalLayer" -> get_item(lower_layer, key, ctx, NullLayer)
      [] layer.type = "LinkedLayer" ->
             LinkedLayer_get_item_response(layer, key, ctx, lower_layer)
      [] layer.type = "KeyExpansionLayer" ->
             KeyExpansionLayer_get_item(key, ctx, lower_layer)
      [] layer.type = "IndexGetterLayer" ->
             IndexGetterLayer_get_item(layer, key, ctx, lower_layer)
      [] layer.type = "SmartLayer" ->
             SmartLayer_get_item(layer.constant_key_getters, layer.key_pattern_getters,
                                 key, ctx, lower_layer).resp

\* Constant.read
Constant_read(g) == Response_found(g.c)

\* NotFound.read
NotFound_read == Response_not_found

\* Stop.read answering as NotFound.read does.
Stop_read_continues == Response_not_found

\* Stop.read
Stop_read == Response_not_found_stop

\* The characters \d matches, as far as templates here use them.
Digits == {"0", "1", "2", "3", "4", "5", "6", "7", "8", "9"}

\* Env.read: os.environ is carried by the context record.
Env_read(g, ctx) ==
    IF g.envar \notin DOMAIN ctx.environ THEN Response_not_found
    ELSE Response_found(ctx.environ[g.envar])

\* A returned value or a raised exception of a caller's function.
Returns(v) == [raised |-> FALSE, value |-> v]

Raises == [raised |-> TRUE, value |-> None]

\* An int as a value: its decimal digits behind a mark that no str has.
IntMark == "#"

\* The digits s without leading zeros.
RECURSIVE strip_zeros(_)
strip_zeros(s) ==
    IF Len(s) > 1 /\ Head(s) = "0" THEN strip_zeros(Tail(s)) ELSE s

\* int(v) for v None, an int, or a str without sign, blanks or underscores.
int(v) ==
    IF v = None \/ v = <<>> THEN Raises
    ELSE IF Head(v) = IntMark THEN Returns(v)
    ELSE IF \A n \in 1..Len(v) : v[n] \in Digits
    THEN Returns(<<IntMark>> \o strip_zeros(v))
    ELSE Raises

\* def oops(x): raise Oops
oops(v) == Raises

\* self.f(resp.value) for the functions transforms are built with here.
apply(f, v) == IF f = "int" THEN int(v) ELSE oops(v)

\* Transform.read with f applied to every response that did not raise.
Transform_read_applies_always(g, key, rest, ctx, lower_layer) ==
    LET Applied(resp, r) ==
            IF r.raised THEN Raised("exceptions.ValueTransformException")
            ELSE new_value(resp, r.value)
        After(resp) ==
            IF has_raised(resp) THEN resp
            ELSE Applied(resp, apply(g.f, resp.value))
    IN After(Getter_read(g.getter, key, rest, ctx, lower_layer))

\* Transform.read
Transform_read(g, key, rest, ctx, lower_layer) ==
    LET Applied(resp, r) ==
            IF r.raised THEN Raised("exceptions.ValueTransformException")
            ELSE new_value(resp, r.value)
        After(resp) ==
            IF has_raised(resp) THEN resp
            ELSE IF ~is_found(resp) THEN resp
            ELSE Applied(resp, apply(g.f, resp.value))
    IN After(Getter_read(g.getter, key, rest, ctx, lower_layer))

\* IgnoreTransformErrors.read with the except clause left out.
IgnoreTransformErrors_read_reraises(g, key, rest, ctx, lower_layer) ==
    Getter_read(g.getter, key, rest, ctx, lower_layer)

\* IgnoreTransformErrors.read
IgnoreTransformErrors_read(g, key, rest, ctx, lower_layer) ==
    LET After(resp) ==
            IF resp.raised = "exceptions.ValueTransformException"
            THEN Response_not_found
            ELSE resp
    IN After(Getter_read(g.getter, key, rest, ctx, lower_layer))

\* BaseKeyReference.read with a stop from beneath taken for a plain miss.
BaseKeyReference_read_drops_stop(key, ctx, lower_layer) ==
    LET After(resp) == IF must_stop(resp) THEN Response_not_found ELSE resp
    IN After(get_item(lower_layer, key, ctx, NullLayer))

\* BaseKeyReference.read
BaseKeyReference_read(key, ctx, lower_layer) == get_item(lower_layer, key, ctx, NullLayer)

\* expansions_ptrn.findall(tmpl) from position p on: at a "{" followed by
\* one or more characters other than "}" and then a "}", the characters in
\* between, and the scan resumes behind that "}".
RECURSIVE findall_expansions(_, _)
findall_expansions(tmpl, p) ==
    IF p > Len(tmpl) THEN {}
    ELSE LET Q == {q \in (p + 1)..Len(tmpl) : tmpl[q] = "}"} IN
         IF tmpl[p] = "{" /\ Q # {} /\ Min(Q) > p + 1
         THEN {SubSeq(tmpl, p + 1, Min(Q) - 1)} \cup findall_expansions(tmpl, Min(Q) + 1)
         ELSE findall_expansions(tmpl, p + 1)

\* helpers.expansions
expansions(tmpl) == findall_expansions(tmpl, 1)

\* _is_digit.match(exp): digits at the start of exp.
is_digit_match(exp) == exp # <<>> /\ exp[1] \in Digits

\* t.replace(old, new), old not empty.
RECURSIVE replace(_, _, _)
replace(t, old, new) ==
    IF Len(t) < Len(old) THEN t
    ELSE IF SubSeq(t, 1, Len(old)) = old
    THEN new \o replace(SubSeq(t, Len(old) + 1, Len(t)), old, new)
    ELSE <<t[1]>> \o replace(Tail(t), old, new)

\* for exp in expansions: the set's elements in the order this process
\* iterates them.
iterate(S, ctx) == SelectSeq(ctx.set_order, LAMBDA x : x \in S)

\* The first loop of helpers.expand over the expansions exps still to do:
\* the replacements, or None returned, or an exception raised.
RECURSIVE expand_collect(_, _, _)
expand_collect(exps, ctx, lower_layer) ==
    IF exps = <<>> THEN [raised |-> "none", none |-> FALSE, replacements |-> <<>>]
    ELSE LET exp == Head(exps)
             fail == [raised |-> "none", none |-> TRUE, replacements |-> <<>>]
             raise(exc) == [raised |-> exc, none |-> FALSE, replacements |-> <<>>]
             Prepend(v, more) ==
                 IF more.raised # "none" \/ more.none THEN more
                 ELSE [more EXCEPT !.replacements =
                          <<[exp |-> <<"{">> \o exp \o <<"}">>, v |-> v]>> \o @]
             Resolved(resp) ==
                 IF has_raised(resp) THEN raise(resp.raised)
                 ELSE IF ~is_found(resp) THEN fail
                 ELSE Prepend(resp.value, expand_collect(Tail(exps), ctx, lower_layer))
         IN IF is_digit_match(exp)
            THEN IF ~ctx.has_globs THEN raise("AttributeError")
                 ELSE IF ctx.globs = <<>> THEN fail
                 ELSE IF exp \notin DOMAIN ctx.globs THEN fail
                 ELSE Prepend(ctx.globs[exp], expand_collect(Tail(exps), ctx, lower_layer))
            ELSE Resolved(get_item(lower_layer, exp, ctx, NullLayer))

\* The second loop of helpers.expand.
RECURSIVE expand_replace(_, _)
expand_replace(t, replacements) ==
    IF replacements = <<>> THEN t
    ELSE expand_replace(replace(t, Head(replacements).exp, Head(replacements).v),
                        Tail(replacements))

\* helpers.expand: the expanded template, or None, or an exception.
expand(tmpl, exps, ctx, lower_layer) ==
    LET Result(c) ==
            IF c.raised # "none" THEN [raised |-> c.raised, value |-> None]
            ELSE IF c.none THEN [raised |-> "none", value |-> None]
            ELSE [raised |-> "none", value |-> expand_replace(tmpl, c.replacements)]
    IN Result(expand_collect(iterate(exps, ctx), ctx, lower_layer))

\* GetterStack.read with must_stop left out of the test after a read.
RECURSIVE GetterStack_read_ignores_stop(_, _, _, _, _)
GetterStack_read_ignores_stop(gs, key, rest, ctx, lower_layer) ==
    IF gs = <<>> THEN Response_not_found
    ELSE LET After(resp) ==
                 IF has_raised(resp) \/ is_found(resp) THEN resp
                 ELSE GetterStack_read_ignores_stop(Tail(gs), key, rest, ctx, lower_layer)
         IN After(Getter_read(Head(gs), key, rest, ctx, lower_layer))

\* GetterStack.read over the getters gs still to try.
RECURSIVE GetterStack_read(_, _, _, _, _)
GetterStack_read(gs, key, rest, ctx, lower_layer) ==
    IF gs = <<>> THEN Response_not_found
    ELSE LET After(resp) ==
                 IF has_raised(resp) \/ is_found(resp) \/ must_stop(resp) THEN resp
                 ELSE GetterStack_read(Tail(gs), key, rest, ctx, lower_layer)
         IN After(Getter_read(Head(gs), key, rest, ctx, lower_layer))

\* ExpansionGetter.read
ExpansionGetter_read(g, key, rest, ctx, lower_layer) ==
    LET Result(resp, x) ==
            IF x.raised # "none" THEN Raised(x.raised) ELSE new_value(resp, x.value)
        After(resp) ==
            IF has_raised(resp) THEN resp
            ELSE IF ~resp.found THEN resp
            ELSE Result(resp, expand(resp.value, expansions(resp.value), ctx, lower_layer))
    IN After(Getter_read(g.getter, key, rest, ctx, lower_layer))

\* KeyExpansionLayer.get_item answering with the expanded key itself
\* instead of looking it up beneath.
KeyExpansionLayer_get_item_expanded_no_lookup(k, ctx, lower_layer) ==
    IF k.raised # "none" THEN Raised(k.raised)
    ELSE IF k.value = None THEN Response_not_found
    ELSE Response_found(k.value)

\* KeyExpansionLayer.get_item once helpers.expand has given k.
KeyExpansionLayer_get_item_expanded(k, ctx, lower_layer) ==
    IF k.raised # "none" THEN Raised(k.raised)
    ELSE IF k.value = None THEN Response_not_found
    ELSE get_item(lower_layer, k.value, ctx, NullLayer)

\* KeyExpansionLayer.get_item
KeyExpansionLayer_get_item(key, ctx, lower_layer) ==
    KeyExpansionLayer_get_item_expanded(expand(key, expansions(key), ctx, lower_layer),
                                        ctx, lower_layer)

\* Graft(layer)
Graft(layer) == [type |-> "Graft", layer |-> layer]

\* statics.ObjLayer(data)
ObjLayer(data) == [type |-> "ObjLayer", data |-> data]

\* Graft.read. ObjLayer.get_item answers with a (found, cont, value) tuple,
\* which has no is_found: the test after the call raises AttributeError.
Graft_read(g, rest, ctx, lower_layer) ==
    IF g.layer.type = "ObjLayer" THEN Raised("AttributeError")
    ELSE LET After(resp) ==
                 IF has_raised(resp) THEN resp
                 ELSE IF ~is_found(resp) \/ ~go_next_layer(resp)
                 THEN found_next(resp.value)
                 ELSE resp
         IN After(get_item(g.layer, join(rest), ctx, lower_layer))

\* getter.read(key, rest, context, lower_layer), by the getter's class.
Getter_read(g, key, rest, ctx, lower_layer) ==
    CASE g.type = "Constant" -> Constant_read(g)
      [] g.type = "Graft" -> Graft_read(g, rest, ctx, lower_layer)
      [] g.type = "NotFound" -> NotFound_read
      [] g.type = "Stop" -> Stop_read
      [] g.type = "BaseKeyReference" -> BaseKeyReference_read(key, ctx, lower_layer)
      [] g.type = "GetterStack" -> GetterStack_read(g.getters, key, rest, ctx, lower_layer)
      [] g.type = "ExpansionGetter" -> ExpansionGetter_read(g, key, rest, ctx, lower_layer)
      [] g.type = "Env" -> Env_read(g, ctx)
      [] g.type = "Transform" -> Transform_read(g, key, rest, ctx, lower_layer)
      [] g.type = "IgnoreTransformErrors" ->
             IgnoreTransformErrors_read(g, key, rest, ctx, lower_layer)

\* The default of builders.value's default parameter.
NoDefault == <<"NoDefault">>

\* Not given: the default None of a parameter of builders.value.
NotGiven == "NotGiven"

\* builders.value with the envars list put in front of envar.
value_envars_before_envar(transform, envar, envars, env_transform, default, stop, expand_result) ==
    LET names == IF envar # NotGiven THEN envars \o <<envar>> ELSE envars
        envs == [n \in 1..Len(names) |-> [type |-> "Env", envar |-> names[n]]]
        getters == IF env_transform # NotGiven
                   THEN <<[type |-> "Transform", f |-> env_transform,
                           getter |-> [type |-> "GetterStack", getters |-> envs]]>>
                   ELSE envs
        last == IF default # NoDefault THEN [type |-> "Constant", c |-> default]
                ELSE IF stop THEN [type |-> "Stop"]
                ELSE [type |-> "NotFound"]
        v == [type |-> "GetterStack",
              getters |-> getters \o <<[type |-> "BaseKeyReference"], last>>]
        w == IF expand_result THEN [type |-> "ExpansionGetter", getter |-> v] ELSE v
    IN IF transform # NotGiven
       THEN [type |-> "Transform", f |-> transform, getter |-> w]
       ELSE w

\* builders.value, stop and default not both given: envars is a list of
\* names, and transform, envar and env_transform are NotGiven or given.
value(transform, envar, envars, env_transform, default, stop, expand_result) ==
    LET names == IF envar # NotGiven THEN <<envar>> \o envars ELSE envars
        envs == [n \in 1..Len(names) |-> [type |-> "Env", envar |-> names[n]]]
        getters == IF env_transform # NotGiven
                   THEN <<[type |-> "Transform", f |-> env_transform,
                           getter |-> [type |-> "GetterStack", getters |-> envs]]>>
                   ELSE envs
        last == IF default # NoDefault THEN [type |-> "Constant", c |-> default]
                ELSE IF stop THEN [type |-> "Stop"]
                ELSE [type |-> "NotFound"]
        v == [type |-> "GetterStack",
              getters |-> getters \o <<[type |-> "BaseKeyReference"], last>>]
        w == IF expand_result THEN [type |-> "ExpansionGetter", getter |-> v] ELSE v
    IN IF transform # NotGiven
       THEN [type |-> "Transform", f |-> transform, getter |-> w]
       ELSE w

---------------------------------------------------------------------------
(* smarts.py: SmartLayer. *)

Wildcard == <<"{", "}">>

\* The pattern key.replace("{}", r"([^.]+)") as a sequence of tokens: GROUP
\* for ([^.]+), ANY for the unescaped dot, and the other characters as
\* themselves.
RECURSIVE regex_of(_)
regex_of(key) ==
    IF key = <<>> THEN <<>>
    ELSE IF Len(key) >= 2 /\ SubSeq(key, 1, 2) = Wildcard
    THEN <<"GROUP">> \o regex_of(SubSeq(key, 3, Len(key)))
    ELSE IF Head(key) = "." THEN <<"ANY">> \o regex_of(Tail(key))
    ELSE <<Head(key)>> \o regex_of(Tail(key))

\* ptrn.search(k) for a pattern without the ^ and $ anchors on the right:
\* the pattern has to match a prefix of k only.
RECURSIVE search_unanchored(_, _)
search_unanchored(ptrn, k) ==
    IF ptrn = <<>> THEN TRUE
    ELSE CASE Head(ptrn) = "GROUP" ->
                \E n \in 1..Len(k) :
                    /\ \A m \in 1..n : k[m] # "."
                    /\ search_unanchored(Tail(ptrn), SubSeq(k, n + 1, Len(k)))
           [] Head(ptrn) = "ANY" -> k # <<>> /\ search_unanchored(Tail(ptrn), Tail(k))
           [] OTHER ->
                k # <<>> /\ Head(k) = Head(ptrn) /\ search_unanchored(Tail(ptrn), Tail(k))

\* ptrn.search(k) for ptrn = re.compile("^...$"): the whole of k matches.
RECURSIVE search(_, _)
search(ptrn, k) ==
    IF ptrn = <<>> THEN k = <<>>
    ELSE CASE Head(ptrn) = "GROUP" ->
                \E n \in 1..Len(k) :
                    /\ \A m \in 1..n : k[m] # "."
                    /\ search(Tail(ptrn), SubSeq(k, n + 1, Len(k)))
           [] Head(ptrn) = "ANY" -> k # <<>> /\ search(Tail(ptrn), Tail(k))
           [] OTHER -> k # <<>> /\ Head(k) = Head(ptrn) /\ search(Tail(ptrn), Tail(k))

\* key_pattern_getters[n] as a value: the list, empty for a missing n.
pattern_list(kpg, n) == IF n \in DOMAIN kpg THEN kpg[n] ELSE <<>>

\* key_pattern_getters[n] as an effect: a defaultdict stores the empty list
\* it makes for a missing n.
touched(kpg, n) == IF n \in DOMAIN kpg THEN kpg ELSE (n :> <<>>) @@ kpg

\* SmartLayer.__setitem__: the registries after self[key] = getter. A
\* pattern entry keeps the key it was compiled from in at.
SmartLayer_setitem(ckg, kpg, key, getter) ==
    IF ~Contains(key, Wildcard)
    THEN [ckg |-> (key :> getter) @@ ckg, kpg |-> kpg]
    ELSE LET n == Len(split(key)) IN
         [ckg |-> ckg,
          kpg |-> (n :> Append(pattern_list(kpg, n),
                               [ptrn |-> regex_of(key), getter |-> getter, at |-> key]))
                      @@ kpg]

\* The test after a read with is_found left out.
ends_search_not_on_found(resp) ==
    has_raised(resp) \/ must_stop(resp) \/ go_next_layer(resp)

\* The test after a read replaced by an unconditional return.
ends_search_on_any_match(resp) == TRUE

\* resp.is_found or resp.must_stop or resp.go_next_layer, or no resp at all.
ends_search(resp) ==
    has_raised(resp) \/ is_found(resp) \/ must_stop(resp) \/ go_next_layer(resp)

\* One getter.read of a lookup: the registration read (at, and slot in the
\* pattern list, 0 for an exact key), its arguments and its response.
Call(at, slot, key, rest, resp) ==
    [at |-> at, slot |-> slot, key |-> key, rest |-> rest, resp |-> resp]

\* The loop over self.key_pattern_getters[i], from entry j on, after the
\* reads in calls.
RECURSIVE pattern_loop(_, _, _, _, _, _, _)
pattern_loop(entries, j, k, rest, ctx, lower_layer, calls) ==
    IF j > Len(entries) THEN [done |-> FALSE, resp |-> Response_not_found, calls |-> calls]
    ELSE IF ~search(entries[j].ptrn, k)
    THEN pattern_loop(entries, j + 1, k, rest, ctx, lower_layer, calls)
    ELSE LET After(resp) ==
                 IF ends_search(resp)
                 THEN [done |-> TRUE, resp |-> resp,
                       calls |-> Append(calls, Call(entries[j].at, j, k, rest, resp))]
                 ELSE pattern_loop(entries, j + 1, k, rest, ctx, lower_layer,
                                   Append(calls, Call(entries[j].at, j, k, rest, resp)))
         IN After(Getter_read(entries[j].getter, k, rest, ctx, lower_layer))

\* ".".join(indexes[0:i])
prefix_of(indexes, i) == join(SubSeq(indexes, 1, i))

\* indexes[i-1:len(indexes)], one segment too many.
rest_of_from_matched(indexes, i) == SubSeq(indexes, i, Len(indexes))

\* indexes[i:len(indexes)]
rest_of(indexes, i) == SubSeq(indexes, i + 1, Len(indexes))

\* The loop for i in range(1, len(indexes)+1) with the pattern getters of a
\* prefix read before its exact-key getter.
RECURSIVE prefix_loop_patterns_first(_, _, _, _, _, _, _)
prefix_loop_patterns_first(ckg, kpg, indexes, i, ctx, lower_layer, calls) ==
    IF i > Len(indexes) THEN [resp |-> Response_not_found, calls |-> calls, kpg |-> kpg]
    ELSE LET k == prefix_of(indexes, i)
             rest == rest_of(indexes, i)
             kpg2 == touched(kpg, i)
             Exact(calls2) ==
                 LET After(cresp) ==
                         IF ends_search(cresp)
                         THEN [resp |-> cresp,
                               calls |-> Append(calls2, Call(k, 0, k, rest, cresp)),
                               kpg |-> kpg2]
                         ELSE prefix_loop_patterns_first(
                                  ckg, kpg2, indexes, i + 1, ctx, lower_layer,
                                  Append(calls2, Call(k, 0, k, rest, cresp)))
                 IN IF k \in DOMAIN ckg
                    THEN After(Getter_read(ckg[k], k, rest, ctx, lower_layer))
                    ELSE prefix_loop_patterns_first(ckg, kpg2, indexes, i + 1, ctx,
                                                    lower_layer, calls2)
             Done(p) ==
                 IF p.done THEN [resp |-> p.resp, calls |-> p.calls, kpg |-> kpg2]
                 ELSE Exact(p.calls)
         IN Done(pattern_loop(kpg2[i], 1, k, rest, ctx, lower_layer, calls))

\* The loop for i in range(1, len(indexes)+1), from i on, after the reads in
\* calls.
RECURSIVE prefix_loop(_, _, _, _, _, _, _)
prefix_loop(ckg, kpg, indexes, i, ctx, lower_layer, calls) ==
    IF i > Len(indexes) THEN [resp |-> Response_not_found, calls |-> calls, kpg |-> kpg]
    ELSE LET k == prefix_of(indexes, i)
             rest == rest_of(indexes, i)
             Patterns(kpg2, calls2) ==
                 LET Done(p) ==
                         IF p.done THEN [resp |-> p.resp, calls |-> p.calls, kpg |-> kpg2]
                         ELSE prefix_loop(ckg, kpg2, indexes, i + 1, ctx, lower_layer,
                                          p.calls)
                 IN Done(pattern_loop(kpg2[i], 1, k, rest, ctx, lower_layer, calls2))
             Exact(cresp) ==
                 IF ends_search(cresp)
                 THEN [resp |-> cresp,
                       calls |-> Append(calls, Call(k, 0, k, rest, cresp)),
                       kpg |-> kpg]
                 ELSE Patterns(touched(kpg, i), Append(calls, Call(k, 0, k, rest, cresp)))
         IN IF k \in DOMAIN ckg
            THEN Exact(Getter_read(ckg[k], k, rest, ctx, lower_layer))
            ELSE Patterns(touched(kpg, i), calls)

\* SmartLayer.get_item that consults the root getter for the empty key only.
SmartLayer_get_item_root_for_empty_key(ckg, kpg, key, ctx, lower_layer) ==
    IF key = <<>> /\ <<>> \notin DOMAIN ckg
    THEN [resp |-> Response_not_found, calls |-> <<>>, kpg |-> kpg]
    ELSE LET Root(rresp) ==
                 IF ends_search(rresp)
                 THEN [resp |-> rresp,
                       calls |-> <<Call(<<>>, 0, <<>>, <<>>, rresp)>>,
                       kpg |-> kpg]
                 ELSE prefix_loop(ckg, kpg, split(key), 1, ctx, lower_layer,
                                  <<Call(<<>>, 0, <<>>, <<>>, rresp)>>)
         IN IF key = <<>>
            THEN Root(Getter_read(ckg[<<>>], <<>>, <<>>, ctx, lower_layer))
            ELSE prefix_loop(ckg, kpg, split(key), 1, ctx, lower_layer, <<>>)

\* SmartLayer.get_item: the response, the reads made and the pattern
\* registry it leaves behind.
SmartLayer_get_item(ckg, kpg, key, ctx, lower_layer) ==
    IF key = <<>> /\ <<>> \notin DOMAIN ckg
    THEN [resp |-> Response_not_found, calls |-> <<>>, kpg |-> kpg]
    ELSE LET indexes == split(key)
             Root(rresp) ==
                 IF ends_search(rresp)
                 THEN [resp |-> rresp,
                       calls |-> <<Call(<<>>, 0, <<>>, indexes, rresp)>>,
                       kpg |-> kpg]
                 ELSE prefix_loop(ckg, kpg, indexes, 1, ctx, lower_layer,
                                  <<Call(<<>>, 0, <<>>, indexes, rresp)>>)
         IN IF <<>> \in DOMAIN ckg
            THEN Root(Getter_read(ckg[<<>>], <<>>, indexes, ctx, lower_layer))
            ELSE prefix_loop(ckg, kpg, indexes, 1, ctx, lower_layer, <<>>)

---------------------------------------------------------------------------
(* The layers and keys the chain is exercised with. *)

ChainKeys == {<<"a">>, <<"b">>}

ChainValues == {<<"1">>, <<"2">>}

IndexLayers ==
    {[type |-> "IndexLayer", map |-> m] :
        m \in UNION {[D -> ChainValues] : D \in SUBSET ChainKeys}}

ConstantLayers == {[type |-> "ConstantLayer", value |-> <<"3">>]}

\* Layers answering not-found per key, with Stop or Go.
StopTables ==
    [ChainKeys -> {Tuple(RR_NotFound, Cont_Stop, None), Tuple(RR_NotFound, Cont_Go, None)}]

OtherLayers == {[type |-> "Layer", table |-> t] : t \in StopTables}

Layers == IndexLayers \cup ConstantLayers \cup OtherLayers

---------------------------------------------------------------------------
(* The chain as a state machine. *)

NoResult == Tuple(RR_NotFound, Cont_Go, None)

NoOutcome == [kind |-> "none", value |-> None]

NoCall == [op |-> "none", default |-> None]

\* c[key]
GetItemCall == [op |-> "getitem", default |-> None]

\* c.get(key, default)
GetCall(default) == [op |-> "get", default |-> default]

\* Context(): an object without attributes.
NewContext ==
    [has_globs |-> FALSE, globs |-> <<>>, set_order |-> <<>>, environ |-> <<>>]

\* helpers.expand has not been called.
NoExpansion == [raised |-> "none", value |-> <<"NoExpansion">>]

\* SmartLayer(): empty registries, nothing looked up yet.
SmartEmpty ==
    /\ constant_key_getters = <<>>
    /\ key_pattern_getters = <<>>
    /\ s_key = NoKey
    /\ s_resp = Response_not_found
    /\ s_calls = <<>>
    /\ expanded = NoExpansion

\* The same with a new Context().
SmartIdle == SmartEmpty /\ context = NewContext /\ below = TerminalLayer

\* The clock of a process that has just started: time.time() is positive.
StartTime == 1

\* No lookup has gone through a CacheLayer.
NoRead ==
    [key |-> NoKey, at |-> 0, before |-> <<>>, invoked |-> FALSE,
     resp |-> Response_not_found, below |-> Response_not_found,
     prior |-> <<>>, fetched |-> <<>>, missed_before |-> FALSE, misses |-> {}]

\* No CacheLayer: nothing cached, no getters beneath, nothing looked up.
CacheIdle == cache = <<>> /\ source = <<>> /\ c_read = NoRead

\* No file, no AutoRefreshGetter and no read of one.
NoFile == <<"NoFile">>
NoLoader == <<"NoLoader">>
NoRefresh == <<"NoRefresh">>

\* No thread reads an AutoRefreshGetter.
NoReaders == <<>>
RaceIdle == readers = NoReaders /\ constructed = {}

LoaderIdle == remote = NoFile /\ loader = NoLoader /\ r_read = NoRefresh /\ RaceIdle

\* Nothing depends on the time.
TimeIdle == now = StartTime /\ CacheIdle /\ LoaderIdle

\* LayerCake(): an empty cake behind a Config facade, nothing looked up yet.
ChainIdle ==
    /\ layers = <<>>
    /\ pushed = <<>>
    /\ stack_list = <<>>
    /\ from_stack = FALSE
    /\ q_key = NoKey
    /\ q_result = NoResult
    /\ q_trace = <<>>
    /\ q_out = NoOutcome
    /\ q_call = NoCall

Init == ChainIdle /\ SmartIdle /\ TimeIdle

\* LayerCake.push(layer)
Push(layer) ==
    /\ Len(layers) < MaxLayers
    /\ layers' = LayerCake_push(layers, layer)
    /\ pushed' = Append(pushed, layer)
    /\ from_stack' = FALSE
    /\ q_key' = NoKey
    /\ q_result' = NoResult
    /\ q_trace' = <<>>
    /\ q_out' = NoOutcome
    /\ q_call' = NoCall
    /\ UNCHANGED <<time_vars, stack_list, smart_vars>>

\* Nothing has been pushed or looked up yet.
Fresh == pushed = <<>> /\ ~from_stack /\ q_key = NoKey

\* layered_config(context, list): Config(context, layer_stack(list))
LayeredConfig(list) ==
    /\ layers' = layer_stack(list)
    /\ pushed' = reversed(list)
    /\ stack_list' = list
    /\ from_stack' = TRUE
    /\ UNCHANGED <<time_vars, q_key, q_result, q_trace, q_out, q_call, smart_vars>>

\* Config.__getitem__(key) on Config(context, cake)
GetItem(key) ==
    LET r == LinkedLayer_get_item(layers, key) IN
    /\ q_key' = key
    /\ q_result' = r.res
    /\ q_trace' = r.trace
    /\ q_out' = Config_getitem(r.res)
    /\ q_call' = GetItemCall
    /\ UNCHANGED <<time_vars, layers, pushed, stack_list, from_stack, smart_vars>>

Next ==
    \/ \E layer \in Layers : Push(layer)
    \/ Fresh /\ \E list \in SeqsUpTo(Layers, MaxLayers) : LayeredConfig(list)
    \/ \E key \in ChainKeys : GetItem(key)

Spec == Init /\ [][Next]_vars

---------------------------------------------------------------------------
(* The keys, getters and lower layer SmartLayer is exercised with. *)

MaxGetters == 2

\* "", "a", "a.b", "a.b.a", "{}", "a.{}", "{}.b"
SmartPatterns ==
    { <<>>,
      <<"a">>,
      <<"a", ".", "b">>,
      <<"a", ".", "b", ".", "a">>,
      <<"{", "}">>,
      <<"a", ".", "{", "}">>,
      <<"{", "}", ".", "b">> }

\* "", "a", "a.b", "a.bb", "a..b", "a.b.a"
SmartKeys ==
    { <<>>,
      <<"a">>,
      <<"a", ".", "b">>,
      <<"a", ".", "b", "b">>,
      <<"a", ".", ".", "b">>,
      <<"a", ".", "b", ".", "a">> }

\* Constant(c), NotFound(), Stop() and BaseKeyReference()
SmartGetters ==
    { [type |-> "Constant", c |-> <<"5">>],
      [type |-> "NotFound"],
      [type |-> "Stop"],
      [type |-> "BaseKeyReference"] }

\* The layer beneath the SmartLayer: IndexGetterLayer({"a": Constant("9")})
LowerLayer ==
    [type |-> "IndexGetterLayer", map |-> (<<"a">> :> [type |-> "Constant", c |-> <<"9">>])]

---------------------------------------------------------------------------
(* SmartLayer as a state machine. *)

\* The number of registrations held.
RECURSIVE SumLen(_, _)
SumLen(kpg, D) ==
    IF D = {} THEN 0
    ELSE LET n == CHOOSE n \in D : TRUE IN Len(kpg[n]) + SumLen(kpg, D \ {n})

Registered == Cardinality(DOMAIN constant_key_getters) + SumLen(key_pattern_getters, DOMAIN key_pattern_getters)

SmartInit == ChainIdle /\ SmartIdle /\ TimeIdle

\* layer[key] = getter
SetItem(key, getter) ==
    LET r == SmartLayer_setitem(constant_key_getters, key_pattern_getters, key, getter) IN
    /\ Registered < MaxGetters
    /\ constant_key_getters' = r.ckg
    /\ key_pattern_getters' = r.kpg
    /\ s_key' = NoKey
    /\ s_resp' = Response_not_found
    /\ s_calls' = <<>>
    /\ UNCHANGED <<time_vars, context, below, expanded, chain_vars>>

\* layer.get_item(key, context, lower_layer)
SmartGetItem(key) ==
    LET Returned(r) ==
            /\ s_key' = key
            /\ s_resp' = r.resp
            /\ s_calls' = r.calls
            /\ key_pattern_getters' = r.kpg
    IN /\ Returned(SmartLayer_get_item(constant_key_getters, key_pattern_getters, key,
                                       context, LowerLayer))
       /\ UNCHANGED <<time_vars, constant_key_getters, context, below, expanded, chain_vars>>

SmartNext ==
    \/ \E key \in SmartPatterns, getter \in SmartGetters : SetItem(key, getter)
    \/ \E key \in SmartKeys : SmartGetItem(key)

SmartSpec == SmartInit /\ [][SmartNext]_vars

---------------------------------------------------------------------------
(* SmartLayer with getters that expand their result. *)

\* Patterns registered.
ExpandPatterns ==
    {<<"{", "}">>,
     <<"{", "}", ".", "{", "}">>,
     <<"a", ".", "{", "}">>}

\* Templates given as default.
ExpandDefaults ==
    {<<"{", "1", "}">>,
     <<"{", "2", "}", ".", "{", "1", "}">>,
     <<"{", "1", "}", ".", "{", "2", "}">>,
     <<"x">>}

\* builders.value(default=..., expand_result=True)
ExpandGetters ==
    {value(NotGiven, NotGiven, <<>>, NotGiven, d, FALSE, TRUE) : d \in ExpandDefaults}

\* Keys looked up.
ExpandKeys ==
    {<<"a">>,
     <<"b">>,
     <<"a", ".", "b">>,
     <<"a", ".", "b", ".", "a">>}

\* The orders in which a process may iterate a set of placeholder names.
SetOrders ==
    LET N == UNION {expansions(d) : d \in ExpandDefaults} IN
    {o \in [1..Cardinality(N) -> N] : \A x \in N : \E i \in DOMAIN o : o[i] = x}

\* One process: its set iteration order is fixed, its Context() is new.
ExpandInit ==
    /\ ChainIdle
    /\ TimeIdle
    /\ SmartEmpty
    /\ \E o \in SetOrders : context = [NewContext EXCEPT !.set_order = o]
    /\ below = TerminalLayer

ExpandNext ==
    \/ \E key \in ExpandPatterns, getter \in ExpandGetters : SetItem(key, getter)
    \/ \E key \in ExpandKeys : SmartGetItem(key)

ExpandSpec == ExpandInit /\ [][ExpandNext]_vars

---------------------------------------------------------------------------
(* The facade over the tuple protocol, with both of its methods. *)

\* Config.get raising KeyError for a key not found, as __getitem__ does.
Config_get_raises(res, default) ==
    IF res.found = RR_Found THEN [kind |-> "value", value |-> res.value]
    ELSE IF res.found = RR_NotFound THEN [kind |-> "KeyError", value |-> None]
    ELSE [kind |-> "Exception", value |-> None]

\* Config.get on what the root layer returned.
Config_get(res, default) ==
    IF res.found = RR_Found THEN [kind |-> "value", value |-> res.value]
    ELSE IF res.found = RR_NotFound THEN [kind |-> "value", value |-> default]
    ELSE [kind |-> "Exception", value |-> None]

\* The defaults handed to Config.get: left out, or given.
GetDefaults == {None, <<"d">>}

\* Config.get(key, default) on Config(context, cake)
Get(key, default) ==
    LET r == LinkedLayer_get_item(layers, key) IN
    /\ q_key' = key
    /\ q_result' = r.res
    /\ q_trace' = r.trace
    /\ q_out' = Config_get(r.res, default)
    /\ q_call' = GetCall(default)
    /\ UNCHANGED <<time_vars, layers, pushed, stack_list, from_stack, smart_vars>>

GetNext ==
    \/ \E layer \in Layers : Push(layer)
    \/ \E key \in ChainKeys : GetItem(key)
    \/ \E key \in ChainKeys, default \in GetDefaults : Get(key, default)

GetSpec == Init /\ [][GetNext]_vars

---------------------------------------------------------------------------
(* A Config over a SmartLayer on top of further layers. *)

Constant(c) == [type |-> "Constant", c |-> c]

NotFound == [type |-> "NotFound"]

Stop == [type |-> "Stop"]

Env(envar) == [type |-> "Env", envar |-> envar]

Transform(f, getter) == [type |-> "Transform", f |-> f, getter |-> getter]

IgnoreTransformErrors(getter) == [type |-> "IgnoreTransformErrors", getter |-> getter]

GetterStack(getters) == [type |-> "GetterStack", getters |-> getters]

\* SmartLayer(initial): a layer beneath, its registries as built by
\* __setitem__ from keys without a wildcard.
SmartLayer(initial) ==
    [type |-> "SmartLayer", constant_key_getters |-> initial, key_pattern_getters |-> <<>>]

\* "a.b" and "a.b.a"
KeyAB == <<"a", ".", "b">>

KeyABA == <<"a", ".", "b", ".", "a">>

FacadeKeys == {KeyAB, KeyABA}

\* The environment variables and the values they are set to.
EnvValues == [FOO |-> {<<"2">>, <<"x">>}, BAR |-> {<<"3">>}]

EnvNames == DOMAIN EnvValues

\* The functions transforms are built with.
Functions == {"int", "oops"}

\* The getters stacks are built from.
Atoms ==
    {Constant(<<"5">>), NotFound, Stop, Env("FOO"), Transform("oops", Constant(<<"6">>))}

\* The longest GetterStack registered.
MaxStack == 2

\* builders.value with the combinations of envar, envars, default, stop
\* and transform that it accepts, and with an env_transform.
Values ==
    {value(t, e, es, NotGiven, ds.default, ds.stop, FALSE) :
        t \in {NotGiven, "int"}, e \in {NotGiven, "FOO"}, es \in {<<>>, <<"BAR">>},
        ds \in {[default |-> NoDefault, stop |-> FALSE],
                [default |-> NoDefault, stop |-> TRUE],
                [default |-> <<"7">>, stop |-> FALSE]}}
    \cup {value(NotGiven, "FOO", <<"BAR">>, "int", NoDefault, FALSE, FALSE)}

\* What gets registered at "a.b".
FacadeGetters ==
    Atoms
    \cup {GetterStack(gs) : gs \in SeqsUpTo(Atoms, MaxStack)}
    \cup {GetterStack(<<IgnoreTransformErrors(Transform("oops", Constant(<<"5">>))),
                        Constant(<<"6">>)>>)}
    \cup {Transform(f, g) : f \in Functions,
                            g \in {Constant(<<"0", "5">>), Constant(<<"x">>), NotFound, Stop,
                                   Env("FOO")}}
    \cup {IgnoreTransformErrors(g) :
              g \in {Transform("int", Constant(<<"x">>)), Transform("int", Env("FOO")),
                     Transform("oops", Constant(<<"5">>)), Stop}}
    \cup Values

\* The layers beneath: none; an index of getters; a SmartLayer that stops at
\* "a.b"; a SmartLayer that refers further down, above one that has values.
FacadeBelows ==
    {TerminalLayer,
     LinkedLayer([type |-> "IndexGetterLayer", map |-> (KeyAB :> Constant(<<"8">>))],
                 TerminalLayer),
     LinkedLayer(SmartLayer(KeyAB :> value(NotGiven, NotGiven, <<>>, NotGiven,
                                           NoDefault, TRUE, FALSE)),
                 TerminalLayer),
     LinkedLayer(SmartLayer(KeyAB :> value(NotGiven, NotGiven, <<>>, NotGiven,
                                           NoDefault, FALSE, FALSE)),
                 LinkedLayer(SmartLayer((KeyAB :> Constant(<<"8">>))
                                            @@ (KeyABA :> Constant(<<"9">>))),
                             TerminalLayer))}

\* The except clause of Config._get_item: what the caller sees of an
\* exception raised beneath. Only config.ValueTransformException is caught.
Config_get_item_except(exc) ==
    IF exc = "config.ValueTransformException" THEN "ValueError" ELSE exc

\* Config.__getitem__ on a Response: the value if found, KeyError if not.
Config_getitem_response(resp) ==
    IF has_raised(resp) THEN [kind |-> Config_get_item_except(resp.raised), value |-> None]
    ELSE IF is_found(resp) THEN [kind |-> "value", value |-> resp.value]
    ELSE [kind |-> "KeyError", value |-> None]

\* Config.get on a Response: the value if found, the default if not.
Config_get_response(resp, default) ==
    IF has_raised(resp) THEN [kind |-> Config_get_item_except(resp.raised), value |-> None]
    ELSE IF is_found(resp) THEN [kind |-> "value", value |-> resp.value]
    ELSE [kind |-> "value", value |-> default]

\* What the method called returns or raises.
Config_call(call, resp) ==
    IF call.op = "getitem" THEN Config_getitem_response(resp)
    ELSE Config_get_response(resp, call.default)

\* One process with its layers beneath, a new SmartLayer and Context().
FacadeInit ==
    /\ ChainIdle
    /\ TimeIdle
    /\ SmartEmpty
    /\ context = NewContext
    /\ below \in FacadeBelows

\* The lookup variables of a Config nothing has been asked of.
Unasked ==
    /\ s_key' = NoKey
    /\ s_resp' = Response_not_found
    /\ s_calls' = <<>>
    /\ q_key' = NoKey
    /\ q_result' = NoResult
    /\ q_out' = NoOutcome
    /\ q_call' = NoCall
    /\ UNCHANGED <<time_vars, layers, pushed, stack_list, from_stack, q_trace, expanded>>

\* layer[key] = getter on the top layer, once for a key.
Register(key, getter) ==
    LET r == SmartLayer_setitem(constant_key_getters, key_pattern_getters, key, getter) IN
    /\ key \notin DOMAIN constant_key_getters
    /\ constant_key_getters' = r.ckg
    /\ key_pattern_getters' = r.kpg
    /\ Unasked
    /\ UNCHANGED <<context, below>>

\* monkeypatch.setenv(name, v)
SetEnv(name, v) ==
    /\ context' = [context EXCEPT !.environ = (name :> v) @@ @]
    /\ Unasked
    /\ UNCHANGED <<constant_key_getters, key_pattern_getters, below>>

\* monkeypatch.delenv(name, raising=False)
DelEnv(name) ==
    /\ context' = [context EXCEPT !.environ =
                      IF DOMAIN @ \subseteq {name} THEN <<>>
                      ELSE [n \in DOMAIN @ \ {name} |-> @[n]]]
    /\ Unasked
    /\ UNCHANGED <<constant_key_getters, key_pattern_getters, below>>

\* c[key] or c.get(key, default) on
\* Config(context, layer_stack([the SmartLayer] + the layers beneath)): the
\* SmartLayer is asked with the layers beneath for its lower layer, and
\* they are asked if it neither finds nor stops.
Lookup(key, call) ==
    LET Answered(r, resp) ==
            /\ s_key' = key
            /\ s_resp' = r.resp
            /\ s_calls' = r.calls
            /\ key_pattern_getters' = r.kpg
            /\ q_key' = key
            /\ q_result' = resp
            /\ q_out' = Config_call(call, resp)
            /\ q_call' = call
        Linked(r) ==
            IF has_raised(r.resp) \/ is_found(r.resp) \/ must_stop(r.resp)
            THEN Answered(r, r.resp)
            ELSE Answered(r, get_item(below, key, context, NullLayer))
    IN /\ Linked(SmartLayer_get_item(constant_key_getters, key_pattern_getters, key,
                                     context, below))
       /\ UNCHANGED <<time_vars, constant_key_getters, context, below, expanded,
                      layers, pushed, stack_list, from_stack, q_trace>>

FacadeNext ==
    \/ \E getter \in FacadeGetters : Register(KeyAB, getter)
    \/ Register(KeyABA, Constant(<<"6">>))
    \/ \E name \in EnvNames : \E v \in EnvValues[name] : SetEnv(name, v)
    \/ \E name \in EnvNames : DelEnv(name)
    \/ \E key \in FacadeKeys :
           \E call \in {GetItemCall} \cup {GetCall(d) : d \in GetDefaults} : Lookup(key, call)

FacadeSpec == FacadeInit /\ [][FacadeNext]_vars

---------------------------------------------------------------------------
(* A Config over a KeyExpansionLayer on top of a layer with values. *)

Foo == <<"f", "o", "o">>

Bar == <<"b", "a", "r">>

\* Keys looked up: '{a}.{b}', '{a}.{a}', '{b}.{a}.{b}', '{1}.{a}', 'foo.bar'
Templates ==
    {<<"{", "a", "}", ".", "{", "b", "}">>,
     <<"{", "a", "}", ".", "{", "a", "}">>,
     <<"{", "b", "}", ".", "{", "a", "}", ".", "{", "b", "}">>,
     <<"{", "1", "}", ".", "{", "a", "}">>,
     Foo \o <<".">> \o Bar}

\* The placeholder names of the keys.
Names == UNION {expansions(t) : t \in Templates}

\* The keys placeholders stand for: those that are not numbers.
NamedKeys == {n \in Names : ~is_digit_match(n)}

\* A value that reads as a placeholder itself: '{b}'
BraceB == <<"{", "b", "}">>

\* What a placeholder's key may be registered as beneath.
NameGetters == {Constant(Foo), Constant(Bar), Constant(BraceB), NotFound, Stop}

\* The values the layer beneath has from the start.
BaseValues ==
    (Foo \o <<".">> \o Bar :> Constant(<<"1">>))
        @@ (Foo \o <<".">> \o Foo :> Constant(<<"2">>))
        @@ (Bar \o <<".">> \o Foo \o <<".">> \o Bar :> Constant(<<"3">>))

\* The orders in which a process may iterate the placeholder names.
NameOrders ==
    {o \in [1..Cardinality(Names) -> Names] : \A x \in Names : \E i \in DOMAIN o : o[i] = x}

\* layered_config(Context(), [KeyExpansionLayer(), SmartLayer(BaseValues)])
KeyExpandInit ==
    /\ ChainIdle
    /\ TimeIdle
    /\ SmartEmpty
    /\ \E o \in NameOrders : context = [NewContext EXCEPT !.set_order = o]
    /\ below = LinkedLayer(SmartLayer(BaseValues), TerminalLayer)

\* layer[name] = getter on the layer beneath, once for a name.
Provide(name, getter) ==
    /\ name \notin DOMAIN below.layer.constant_key_getters
    /\ below' = [below EXCEPT !.layer.constant_key_getters = (name :> getter) @@ @]
    /\ expanded' = NoExpansion
    /\ s_key' = NoKey
    /\ s_resp' = Response_not_found
    /\ q_key' = NoKey
    /\ q_result' = NoResult
    /\ q_out' = NoOutcome
    /\ q_call' = NoCall
    /\ s_calls' = <<>>
    /\ UNCHANGED <<time_vars, constant_key_getters, key_pattern_getters, context,
                   layers, pushed, stack_list, from_stack, q_trace>>

\* c[key]: KeyExpansionLayer.get_item with the layers beneath for its lower
\* layer, and the layers beneath themselves if it neither finds nor stops.
ExpandedLookup(key) ==
    LET Answered(x, r, resp) ==
            /\ expanded' = x
            /\ s_key' = key
            /\ s_resp' = r
            /\ q_key' = key
            /\ q_result' = resp
            /\ q_out' = Config_getitem_response(resp)
            /\ q_call' = GetItemCall
            /\ s_calls' = <<>>
        Linked(x, r) ==
            IF has_raised(r) \/ is_found(r) \/ must_stop(r)
            THEN Answered(x, r, r)
            ELSE Answered(x, r, get_item(below, key, context, NullLayer))
        Expanded(x) == Linked(x, KeyExpansionLayer_get_item_expanded(x, context, below))
    IN /\ Expanded(expand(key, expansions(key), context, below))
       /\ UNCHANGED <<time_vars, constant_key_getters, key_pattern_getters, context, below,
                      layers, pushed, stack_list, from_stack, q_trace>>

\* layer['a.b'] = ExpansionGetter(Constant(tmpl)) on a SmartLayer put on
\* top of the layers beneath, once.
SetTemplate(tmpl) ==
    LET r == SmartLayer_setitem(constant_key_getters, key_pattern_getters, KeyAB,
                                [type |-> "ExpansionGetter", getter |-> Constant(tmpl)])
    IN /\ KeyAB \notin DOMAIN constant_key_getters
       /\ constant_key_getters' = r.ckg
       /\ key_pattern_getters' = r.kpg
       /\ Unasked
       /\ UNCHANGED <<context, below>>

\* c['a.b'] on the Config over that SmartLayer and the layers beneath: the
\* getter expands the value it finds.
ExpandedRead ==
    LET tmpl == constant_key_getters[KeyAB].getter.c
        Answered(r, resp) ==
            /\ expanded' = expand(tmpl, expansions(tmpl), context, below)
            /\ s_key' = KeyAB
            /\ s_resp' = r.resp
            /\ s_calls' = r.calls
            /\ key_pattern_getters' = r.kpg
            /\ q_key' = KeyAB
            /\ q_result' = resp
            /\ q_out' = Config_getitem_response(resp)
            /\ q_call' = GetItemCall
        Linked(r) ==
            IF has_raised(r.resp) \/ is_found(r.resp) \/ must_stop(r.resp)
            THEN Answered(r, r.resp)
            ELSE Answered(r, get_item(below, KeyAB, context, NullLayer))
    IN /\ KeyAB \in DOMAIN constant_key_getters
       /\ Linked(SmartLayer_get_item(constant_key_getters, key_pattern_getters, KeyAB,
                                     context, below))
       /\ UNCHANGED <<time_vars, constant_key_getters, context, below,
                      layers, pushed, stack_list, from_stack, q_trace>>

KeyExpandNext ==
    \/ \E name \in NamedKeys, getter \in NameGetters : Provide(name, getter)
    \/ \E key \in Templates : ExpandedLookup(key)
    \/ \E tmpl \in Templates : SetTemplate(tmpl)
    \/ ExpandedRead

KeyExpandSpec == KeyExpandInit /\ [][KeyExpandNext]_vars

---------------------------------------------------------------------------
(* A SmartLayer with layers grafted in at a key. *)

\* The layers grafted in: IndexGetterLayer({'b': Constant('1')}),
\* SmartLayer({'b': Constant('1'), 'c': Stop()}) and ObjLayer({'b': '1'}).
GraftedLayers ==
    { [type |-> "IndexGetterLayer", map |-> (<<"b">> :> Constant(<<"1">>))],
      SmartLayer((<<"b">> :> Constant(<<"1">>)) @@ (<<"c">> :> Stop)),
      ObjLayer(<<"b">> :> <<"1">>) }

\* What is registered: a graft of one of the layers, or Constant('4').
GraftGetters == {Graft(l) : l \in GraftedLayers} \cup {Constant(<<"4">>)}

\* Registered under: "", "a", "a.b.a"
GraftPatterns == {<<>>, <<"a">>, KeyABA}

\* Keys looked up: "a", "b", "a.b", "a.c", "a.x", "a.b.a"
GraftKeys ==
    {<<"a">>, <<"b">>, KeyAB, <<"a", ".", "c">>, <<"a", ".", "x">>, KeyABA}

GraftNext ==
    \/ \E key \in GraftPatterns, getter \in GraftGetters : SetItem(key, getter)
    \/ \E key \in GraftKeys : SmartGetItem(key)

GraftSpec == SmartInit /\ [][GraftNext]_vars

---------------------------------------------------------------------------
(* Caches: CacheLayer and CacheGetter of smarts.py over getters that keep *)
(* state, with the clock of time.time().                                   *)

\* The last reading of the clock the model follows.
MaxTime == 8

DigitChars == <<"0", "1", "2", "3", "4", "5", "6", "7", "8", "9">>

\* The decimal digits of n: the value a Counter finds is the number n.
RECURSIVE decimal(_)
decimal(n) ==
    IF n < 10 THEN <<DigitChars[n + 1]>>
    ELSE decimal(n \div 10) \o <<DigitChars[(n % 10) + 1]>>

\* resp.still_unexpired(now): a cached entry is served while now < expiry.
still_unexpired(resp, t) == resp.expire # NoExpire /\ t < resp.expire

\* resp.cache_until(t): the response with t for its expiry.
cache_until(resp, t) == [resp EXCEPT !.expire = t]

\* _cache stamping every response, one that carries an expiry too.
cache_always_stamps(c, cache_key, resp, t, ttl_s) ==
    [cache |-> (cache_key :> cache_until(resp, t + ttl_s)) @@ c,
     resp |-> cache_until(resp, t + ttl_s)]

\* _cache(cache, cache_key, resp, now, ttl_s): the dict and the response returned.
cache_store(c, cache_key, resp, t, ttl_s) ==
    IF resp.expire = NoExpire
    THEN [cache |-> (cache_key :> cache_until(resp, t + ttl_s)) @@ c,
          resp |-> cache_until(resp, t + ttl_s)]
    ELSE [cache |-> (cache_key :> resp) @@ c, resp |-> resp]

\* Counter(n)
Counter(n) == [type |-> "Counter", n |-> n]

\* CacheGetter(getter, ttl_s=constant(ttl), negative_ttl_s=constant(nttl))
CacheGetter(getter, ttl, nttl) ==
    [type |-> "CacheGetter", getter |-> getter, cache |-> <<>>,
     ttl_s |-> ttl, negative_ttl_s |-> nttl]

\* Counter.read: the getter afterwards and its response.
Counter_read(g) ==
    [getter |-> [g EXCEPT !.n = @ + 1], resp |-> Response_found(decimal(g.n + 1))]

RECURSIVE Stateful_read(_, _, _)

\* CacheGetter.read with cache_key = full_key(key, []) = key.
CacheGetter_read(g, key, t) ==
    LET Kept(inner, stored) ==
            [getter |-> [g EXCEPT !.getter = inner.getter, !.cache = stored.cache],
             resp |-> stored.resp]
        Passed(inner) ==
            [getter |-> [g EXCEPT !.getter = inner.getter], resp |-> inner.resp]
        After(inner) ==
            IF is_found(inner.resp)
            THEN Kept(inner, cache_store(g.cache, key, inner.resp, t, g.ttl_s))
            ELSE IF g.negative_ttl_s = 0
            THEN Passed(inner)
            ELSE Kept(inner, cache_store(g.cache, key, inner.resp, t, g.negative_ttl_s))
    IN IF key \in DOMAIN g.cache /\ still_unexpired(g.cache[key], t)
       THEN [getter |-> g, resp |-> g.cache[key]]
       ELSE After(Stateful_read(g.getter, key, t))

\* getter.read(key, [], context, lower_layer) of a getter that keeps state.
Stateful_read(g, key, t) ==
    CASE g.type = "Counter" -> Counter_read(g)
      [] g.type = "NotFound" -> [getter |-> g, resp |-> NotFound_read]
      [] g.type = "CacheGetter" -> CacheGetter_read(g, key, t)

\* SmartLayer.get_item(key, ...) for a key of one index over getters keyed
\* by constant keys: the getters afterwards and the response.
Source_get_item(getters, key, t) ==
    LET After(r) ==
            IF ends_search(r.resp)
            THEN [getters |-> [getters EXCEPT ![key] = r.getter], resp |-> r.resp]
            ELSE [getters |-> [getters EXCEPT ![key] = r.getter],
                  resp |-> Response_not_found]
    IN IF key \in DOMAIN getters
       THEN After(Stateful_read(getters[key], key, t))
       ELSE [getters |-> getters, resp |-> Response_not_found]

\* CacheLayer(ttl_s=constant(ttl), negative_ttl_s=constant(nttl))
CacheLayer(ttl, nttl) == [cache |-> <<>>, ttl_s |-> ttl, negative_ttl_s |-> nttl]

\* CacheLayer.get_item caching every miss.
CacheLayer_get_item_caches_misses(layer, key, t, getters) ==
    LET Kept(below_, stored) ==
            [layer |-> [layer EXCEPT !.cache = stored.cache], getters |-> below_.getters,
             resp |-> stored.resp, invoked |-> TRUE, below |-> below_.resp]
        After(below_) ==
            IF is_found(below_.resp)
            THEN Kept(below_, cache_store(layer.cache, key, below_.resp, t, layer.ttl_s))
            ELSE Kept(below_, cache_store(layer.cache, key, below_.resp, t,
                                          layer.negative_ttl_s))
    IN IF key \in DOMAIN layer.cache /\ still_unexpired(layer.cache[key], t)
       THEN [layer |-> layer, getters |-> getters, resp |-> layer.cache[key],
             invoked |-> FALSE, below |-> Response_not_found]
       ELSE After(Source_get_item(getters, key, t))

\* CacheLayer.get_item never serving what it cached.
CacheLayer_get_item_no_hit(layer, key, t, getters) ==
    LET Kept(below_, stored) ==
            [layer |-> [layer EXCEPT !.cache = stored.cache], getters |-> below_.getters,
             resp |-> stored.resp, invoked |-> TRUE, below |-> below_.resp]
        Passed(below_) ==
            [layer |-> layer, getters |-> below_.getters, resp |-> below_.resp,
             invoked |-> TRUE, below |-> below_.resp]
        After(below_) ==
            IF is_found(below_.resp)
            THEN Kept(below_, cache_store(layer.cache, key, below_.resp, t, layer.ttl_s))
            ELSE IF layer.negative_ttl_s = 0
            THEN Passed(below_)
            ELSE Kept(below_, cache_store(layer.cache, key, below_.resp, t,
                                          layer.negative_ttl_s))
    IN After(Source_get_item(getters, key, t))

\* CacheLayer.get_item with one cache entry for all keys.
CacheLayer_get_item_one_entry(layer, key, t, getters) ==
    LET Kept(below_, stored) ==
            [layer |-> [layer EXCEPT !.cache = [k \in DOMAIN stored.cache |-> stored.cache[key]]],
             getters |-> below_.getters,
             resp |-> stored.resp, invoked |-> TRUE, below |-> below_.resp]
        Passed(below_) ==
            [layer |-> layer, getters |-> below_.getters, resp |-> below_.resp,
             invoked |-> TRUE, below |-> below_.resp]
        After(below_) ==
            IF is_found(below_.resp)
            THEN Kept(below_, cache_store(layer.cache, key, below_.resp, t, layer.ttl_s))
            ELSE IF layer.negative_ttl_s = 0
            THEN Passed(below_)
            ELSE Kept(below_, cache_store(layer.cache, key, below_.resp, t,
                                          layer.negative_ttl_s))
    IN IF key \in DOMAIN layer.cache /\ still_unexpired(layer.cache[key], t)
       THEN [layer |-> layer, getters |-> getters, resp |-> layer.cache[key],
             invoked |-> FALSE, below |-> Response_not_found]
       ELSE After(Source_get_item(getters, key, t))

\* CacheLayer.get_item(key, context, lower_layer) at time.time() = t over a
\* SmartLayer of getters: the layer and the getters afterwards, the
\* response, whether the lower layer was asked and what it answered.
CacheLayer_get_item(layer, key, t, getters) ==
    LET Kept(below_, stored) ==
            [layer |-> [layer EXCEPT !.cache = stored.cache], getters |-> below_.getters,
             resp |-> stored.resp, invoked |-> TRUE, below |-> below_.resp]
        Passed(below_) ==
            [layer |-> layer, getters |-> below_.getters, resp |-> below_.resp,
             invoked |-> TRUE, below |-> below_.resp]
        After(below_) ==
            IF is_found(below_.resp)
            THEN Kept(below_, cache_store(layer.cache, key, below_.resp, t, layer.ttl_s))
            ELSE IF layer.negative_ttl_s = 0
            THEN Passed(below_)
            ELSE Kept(below_, cache_store(layer.cache, key, below_.resp, t,
                                          layer.negative_ttl_s))
    IN IF key \in DOMAIN layer.cache /\ still_unexpired(layer.cache[key], t)
       THEN [layer |-> layer, getters |-> getters, resp |-> layer.cache[key],
             invoked |-> FALSE, below |-> Response_not_found]
       ELSE After(Source_get_item(getters, key, t))

\* The keys looked up through the cache.
CacheKeys == {<<"a">>, <<"b">>}

\* The TTLs of the CacheLayer, and the negative TTLs with the default 0.
CacheTtls == {2, 3}
NegativeTtls == {0, 2}

\* The getters registered beneath the cache: counters as in the tests,
\* a cache of its own that stamps what it finds, and a getter that misses.
SourceGetters(n) ==
    {Counter(n), CacheGetter(Counter(n), 1, 0), CacheGetter(Counter(n), 4, 0),
     [type |-> "NotFound"], CacheGetter([type |-> "NotFound"], 1, 1),
     CacheGetter([type |-> "NotFound"], 1, 0)}

\* layered_config(Context(), [CacheLayer(ttl, nttl), SmartLayer({"a": getter})])
CacheInit ==
    /\ ChainIdle
    /\ SmartIdle
    /\ LoaderIdle
    /\ now = StartTime
    /\ \E ttl \in CacheTtls, nttl \in NegativeTtls : cache = CacheLayer(ttl, nttl)
    /\ \E g \in SourceGetters(0) : source = (<<"a">> :> g)
    /\ c_read = NoRead

\* The clock moves on.
Tick ==
    /\ now < MaxTime
    /\ now' = now + 1
    /\ UNCHANGED <<cache, source, c_read, remote, loader, r_read, readers, constructed, chain_vars, smart_vars>>

\* layer["b"] = getter on the SmartLayer beneath the cache, once.
SetSource(key, getter) ==
    /\ key \notin DOMAIN source
    /\ source' = (key :> getter) @@ source
    /\ UNCHANGED <<now, cache, c_read, remote, loader, r_read, readers, constructed, chain_vars, smart_vars>>

\* The CacheLayer is asked for key at the time now. The history kept in
\* c_read: the cache before, whether the lower layer was asked and what it
\* answered, for every key when its entry was stored and whether the
\* response stored carried an expiry of its own, and the keys whose latest
\* lookup found nothing.
CacheRead(key) ==
    LET Returned(r) ==
            /\ cache' = r.layer
            /\ source' = r.getters
            /\ c_read' = [key |-> key, at |-> now, before |-> cache.cache,
                          invoked |-> r.invoked, resp |-> r.resp, below |-> r.below,
                          prior |-> c_read.fetched,
                          fetched |-> IF r.layer.cache # cache.cache
                                      THEN (key :> [at |-> now,
                                                    own |-> r.below.expire # NoExpire])
                                           @@ c_read.fetched
                                      ELSE c_read.fetched,
                          missed_before |-> key \in c_read.misses,
                          misses |-> IF is_found(r.resp)
                                     THEN c_read.misses \ {key}
                                     ELSE c_read.misses \cup {key}]
    IN /\ Returned(CacheLayer_get_item(cache, key, now, source))
       /\ UNCHANGED <<now, remote, loader, r_read, readers, constructed, chain_vars, smart_vars>>

CacheNext ==
    \/ Tick
    \/ \E g \in {Counter(10), CacheGetter(Counter(10), 1, 2)} : SetSource(<<"b">>, g)
    \/ \E key \in CacheKeys : CacheRead(key)

CacheSpec == CacheInit /\ [][CacheNext]_vars

\* The longest a Counter beneath the chain counts.
MaxCount == 13

\* How far the Counter of a getter has counted.
RECURSIVE counted(_)
counted(g) ==
    IF g.type = "Counter" THEN g.n
    ELSE IF g.type = "CacheGetter" THEN counted(g.getter)
    ELSE 0

\* c[key] at the time now on layered_config(Context(), [CacheLayer(...),
\* SmartLayer(...)]): LinkedLayer.get_item asks the CacheLayer with the
\* layers beneath for its lower layer, and asks the layers beneath itself
\* when the CacheLayer's answer is neither found nor a stop. c_read keeps
\* the CacheLayer's part of the lookup, the number of times the layers
\* beneath were asked during it, and the answer of the chain.
ChainRead(key) ==
    LET Returned(r, getters, out, queries) ==
            /\ cache' = r.layer
            /\ source' = getters
            /\ c_read' = [key |-> key, at |-> now, before |-> cache.cache,
                          invoked |-> r.invoked, resp |-> r.resp, below |-> r.below,
                          out |-> out, queries |-> queries]
        Fallthrough(r, again) ==
            Returned(r, again.getters, again.resp, (IF r.invoked THEN 1 ELSE 0) + 1)
        Linked(r) ==
            IF has_raised(r.resp) \/ is_found(r.resp) \/ must_stop(r.resp)
            THEN Returned(r, r.getters, r.resp, IF r.invoked THEN 1 ELSE 0)
            ELSE Fallthrough(r, Source_get_item(r.getters, key, now))
    IN /\ \A k \in DOMAIN source : counted(source[k]) < MaxCount
       /\ Linked(CacheLayer_get_item(cache, key, now, source))
       /\ UNCHANGED <<now, remote, loader, r_read, readers, constructed, chain_vars, smart_vars>>

CacheChainNext ==
    \/ Tick
    \/ \E g \in {Counter(10), CacheGetter(Counter(10), 1, 2)} : SetSource(<<"b">>, g)
    \/ \E key \in CacheKeys : ChainRead(key)

CacheChainSpec == CacheInit /\ [][CacheChainNext]_vars

---------------------------------------------------------------------------
(* loaders.py: AutoRefreshGetter over a FileFetcher, as FileLayerLoader    *)
(* builds it, with the file changing between reads.                        *)

\* The number of times the file is written.
MaxWrites == 2

\* What the file holds: text a layer can be built from, or text that
\* cannot be parsed.
Malformed == <<"{">>
Contents == {<<"1">>, <<"2">>, Malformed}

\* The file: st_mtime counts its writes.
File(exists, mtime, content, readable) ==
    [exists |-> exists, mtime |-> mtime, content |-> content, readable |-> readable]

\* What leaves a call: an exception raised, or a value returned.
Raise(exc) == [raised |-> exc, value |-> None]
Return(v) == [raised |-> "none", value |-> v]

\* FileFetcher.load_required with >= for the comparison of the mtimes.
FileFetcher_load_required_on_equal_mtime(ldr, file) ==
    IF ldr.last_mtime = 0 THEN Return(TRUE)
    ELSE IF ~file.exists THEN Raise("DataSourceMissing")
    ELSE Return(file.mtime >= ldr.last_mtime)

\* FileFetcher.load_required
FileFetcher_load_required(ldr, file) ==
    IF ldr.last_mtime = 0 THEN Return(TRUE)
    ELSE IF ~file.exists THEN Raise("DataSourceMissing")
    ELSE Return(file.mtime > ldr.last_mtime)

\* layer_constructor(f): construct(ConstantLayer, string_from_bytes(bytes_from_file))
\* raises converters.LoadFailure, JsonLayer.from_file lets json.load raise.
layer_constructor(ldr, content) ==
    IF content # Malformed THEN Return([type |-> "ConstantLayer", value |-> content])
    ELSE IF ldr.layer_constructor = "string_from_bytes"
    THEN Raise("converters.LoadFailure")
    ELSE Raise("JSONDecodeError")

\* self.loaded_layer = self.layer_constructor(f) storing a layer it fills
\* in afterwards: a failed construction leaves what it had filled in.
FileFetcher_load_in_place(ldr, file) ==
    LET Built(l) ==
            IF l.raised # "none"
            THEN [loader |-> [ldr EXCEPT !.loaded_layer =
                                             [type |-> "ConstantLayer", value |-> <<>>]],
                  raised |-> l.raised,
                  calls |-> <<"load", "layer_constructor">>]
            ELSE [loader |-> [ldr EXCEPT !.loaded_layer = l.value,
                                         !.last_mtime = file.mtime],
                  raised |-> "none", calls |-> <<"load", "layer_constructor">>]
    IN IF ~file.exists
       THEN [loader |-> ldr, raised |-> "DataSourceMissing", calls |-> <<"load">>]
       ELSE IF ~file.readable
       THEN [loader |-> ldr, raised |-> "FetchFailure", calls |-> <<"load">>]
       ELSE Built(layer_constructor(ldr, file.content))

\* with self.fetcher.load(...) as f: self.loaded_layer = self.layer_constructor(f)
\* over FileFetcher.load: the getter afterwards, and the exception if any.
FileFetcher_load(ldr, file) ==
    LET Built(l) ==
            IF l.raised # "none"
            THEN [loader |-> ldr, raised |-> l.raised,
                  calls |-> <<"load", "layer_constructor">>]
            ELSE [loader |-> [ldr EXCEPT !.loaded_layer = l.value,
                                         !.last_mtime = file.mtime],
                  raised |-> "none", calls |-> <<"load", "layer_constructor">>]
    IN IF ~file.exists
       THEN [loader |-> ldr, raised |-> "DataSourceMissing", calls |-> <<"load">>]
       ELSE IF ~file.readable
       THEN [loader |-> ldr, raised |-> "FetchFailure", calls |-> <<"load">>]
       ELSE Built(layer_constructor(ldr, file.content))

\* self.loaded_layer.get_item(".".join(rest), context, lower_layer)
loaded_layer_get_item(ldr, key) ==
    IF ldr.loaded_layer.type = "NullLayer" THEN NullLayer_get_item(key)
    ELSE ConstantLayer_get_item(ldr.loaded_layer, key)

\* The except clauses of AutoRefreshGetter.read keeping the layer when the
\* source is missing, whatever clear_on_removal says.
AutoRefreshGetter_except_keeps_removed(ldr, exc, t) ==
    CASE exc = "DataSourceMissing" ->
            [ldr EXCEPT !.next_load_s = t + ldr.retry_interval_s]
      [] exc = "FetchFailure" ->
            [ldr EXCEPT !.loaded_layer = IF ldr.clear_on_fetch_failure THEN NullLayer ELSE @,
                        !.next_load_s = @ + t + ldr.retry_interval_s]
      [] exc = "converters.LoadFailure" ->
            [ldr EXCEPT !.loaded_layer = IF ldr.clear_on_load_failure THEN NullLayer ELSE @,
                        !.next_load_s = @ + t + ldr.retry_interval_s]
      [] OTHER -> ldr

\* The except clauses of AutoRefreshGetter.read: the getter afterwards.
\* An exception of another class is not caught.
AutoRefreshGetter_except(ldr, exc, t) ==
    CASE exc = "DataSourceMissing" ->
            [ldr EXCEPT !.loaded_layer = IF ldr.clear_on_removal THEN NullLayer ELSE @,
                        !.next_load_s = t + ldr.retry_interval_s]
      [] exc = "FetchFailure" ->
            [ldr EXCEPT !.loaded_layer = IF ldr.clear_on_fetch_failure THEN NullLayer ELSE @,
                        !.next_load_s = @ + t + ldr.retry_interval_s]
      [] exc = "converters.LoadFailure" ->
            [ldr EXCEPT !.loaded_layer = IF ldr.clear_on_load_failure THEN NullLayer ELSE @,
                        !.next_load_s = @ + t + ldr.retry_interval_s]
      [] OTHER -> ldr

\* The exceptions AutoRefreshGetter.read catches.
Caught == {"DataSourceMissing", "FetchFailure", "converters.LoadFailure"}

\* AutoRefreshGetter.always_enabled
always_enabled(ldr) == TRUE

\* self.is_enabled(key, rest, context, lower_layer): what the predicate
\* handed to the getter answers at this moment.
is_enabled(ldr) == ldr.is_enabled

\* AutoRefreshGetter.read(key, rest, context, lower_layer) at time.time() = t
\* with the file as it is: the getter afterwards, how the read went, the
\* exception that left it if any, the response, and the calls it made of
\* the fetcher, the predicate and the constructor. How the read went:
\* "not due", "not required", "not enabled", "loaded", or the exception
\* raised while refreshing.
AutoRefreshGetter_read(ldr, file, key, t) ==
    LET Answer(l, outcome, exc, calls) ==
            IF exc \in Caught \/ exc = "none"
            THEN [loader |-> l, outcome |-> outcome, raised |-> "none",
                  resp |-> loaded_layer_get_item(l, key), calls |-> calls]
            ELSE [loader |-> l, outcome |-> outcome, raised |-> exc,
                  resp |-> NullLayer_get_item(key), calls |-> calls]
        Loaded(r) ==
            IF r.raised = "none"
            THEN Answer([r.loader EXCEPT !.last_successful_load = t,
                                         !.next_load_s = @ + t + ldr.refresh_interval_s],
                        "loaded", "none", <<"load_required", "is_enabled">> \o r.calls)
            ELSE Answer(AutoRefreshGetter_except(ldr, r.raised, t), r.raised, r.raised,
                        <<"load_required", "is_enabled">> \o r.calls)
        Required(r) ==
            IF r.raised # "none"
            THEN Answer(AutoRefreshGetter_except(ldr, r.raised, t), r.raised, r.raised,
                        <<"load_required">>)
            ELSE IF ~r.value THEN Answer(ldr, "not required", "none", <<"load_required">>)
            ELSE IF ~is_enabled(ldr)
            THEN Answer(ldr, "not enabled", "none", <<"load_required", "is_enabled">>)
            ELSE Loaded(FileFetcher_load(ldr, file))
    IN IF ldr.next_load_s >= t
       THEN Answer(ldr, "not due", "none", <<>>)
       ELSE Required(FileFetcher_load_required(ldr, file))

\* AutoRefreshGetter(layer_constructor, FileFetcher(filename), ...)
AutoRefreshGetter(constructor, refresh, retry, removal, fetch, load, enabled) ==
    [layer_constructor |-> constructor,
     loaded_layer |-> NullLayer,
     refresh_interval_s |-> refresh,
     retry_interval_s |-> retry,
     next_load_s |-> 0,
     last_successful_load |-> 0,
     clear_on_removal |-> removal,
     clear_on_fetch_failure |-> fetch,
     clear_on_load_failure |-> load,
     is_enabled |-> enabled,
     last_mtime |-> 0]

\* The intervals of the getters built: refresh as in the tests, retry shorter.
RefreshIntervals == {3}
RetryIntervals == {1}

\* The layer constructors handed to them.
Constructors == {"string_from_bytes", "JsonLayer.from_file"}

\* clear_on_removal, clear_on_fetch_failure and clear_on_load_failure: the
\* defaults of AutoRefreshGetter, those of FileLayerLoader, and each of the
\* other two policies alone.
Policies ==
    {[removal |-> TRUE, fetch |-> FALSE, load |-> FALSE],
     [removal |-> FALSE, fetch |-> FALSE, load |-> FALSE],
     [removal |-> FALSE, fetch |-> TRUE, load |-> FALSE],
     [removal |-> FALSE, fetch |-> FALSE, load |-> TRUE]}

\* The key read.
RefreshKey == <<"a">>

\* The last read of a getter nothing was read from.
Unread ==
    [at |-> 0, outcome |-> "none", raised |-> "none", resp |-> NullLayer_get_item(RefreshKey),
     before |-> NullLayer, before_next |-> 0, calls |-> <<>>, never_enabled |-> TRUE]

\* One FileLayerLoader with its policies, the file absent or written.
RefreshInit ==
    /\ ChainIdle
    /\ SmartIdle
    /\ CacheIdle
    /\ RaceIdle
    /\ now = StartTime
    /\ remote \in {File(FALSE, 0, <<"1">>, TRUE), File(TRUE, 1, <<"1">>, TRUE)}
    /\ \E c \in Constructors, refresh \in RefreshIntervals, retry \in RetryIntervals,
          p \in Policies :
          loader = AutoRefreshGetter(c, refresh, retry, p.removal, p.fetch, p.load, TRUE)
    /\ r_read = Unread

\* f.write_text(content)
WriteFile(content) ==
    /\ remote.mtime < MaxWrites
    /\ remote' = File(TRUE, remote.mtime + 1, content, remote.readable)
    /\ UNCHANGED <<now, cache, source, c_read, loader, r_read, readers, constructed, chain_vars, smart_vars>>

\* f.unlink()
Unlink ==
    /\ remote.exists
    /\ remote' = [remote EXCEPT !.exists = FALSE]
    /\ UNCHANGED <<now, cache, source, c_read, loader, r_read, readers, constructed, chain_vars, smart_vars>>

\* f.chmod: the file stops or starts being readable.
Chmod ==
    /\ remote.exists
    /\ remote' = [remote EXCEPT !.readable = ~@]
    /\ UNCHANGED <<now, cache, source, c_read, loader, r_read, readers, constructed, chain_vars, smart_vars>>

\* The config switch the getter asks through is_enabled changes.
Switch ==
    /\ loader' = [loader EXCEPT !.is_enabled = ~@]
    /\ UNCHANGED <<now, cache, source, c_read, remote, r_read, readers, constructed, chain_vars, smart_vars>>

\* The file is there and is no newer than what the fetcher loaded last.
SourceUnchanged ==
    remote.exists /\ loader.last_mtime # 0 /\ remote.mtime <= loader.last_mtime

\* FileLayerLoader.get_item(key, ...): auto_loader.read("", key.split("."), ...)
\* at the time now. r_read keeps how the read went, the calls it made, the
\* layer and next_load_s before it, and whether the predicate was false at
\* every read so far.
RefreshRead ==
    LET Returned(r) ==
            /\ loader' = r.loader
            /\ r_read' = [at |-> now, outcome |-> r.outcome, raised |-> r.raised,
                          resp |-> r.resp, before |-> loader.loaded_layer,
                          before_next |-> loader.next_load_s, calls |-> r.calls,
                          never_enabled |-> r_read.never_enabled /\ ~loader.is_enabled]
    IN /\ Returned(AutoRefreshGetter_read(loader, remote, RefreshKey, now))
       /\ UNCHANGED <<now, cache, source, c_read, remote, readers, constructed, chain_vars, smart_vars>>

RefreshNext ==
    \/ Tick
    \/ \E content \in Contents : WriteFile(content)
    \/ Unlink
    \/ Chmod
    \/ Switch
    \/ RefreshRead

RefreshSpec == RefreshInit /\ [][RefreshNext]_vars

---------------------------------------------------------------------------
(* Two threads reading one AutoRefreshGetter. AutoRefreshGetter.read holds  *)
(* no lock, so a thread may be overtaken between any two of its statements. *)

\* The threads.
Readers == {1, 2}

\* The time up to which the threads are followed.
MaxRaceTime == 5

\* A thread outside read: the statement it is at, its local now, the calls
\* it has made, the exception it is handling and the sum it has computed
\* for next_load_s. A thread that returns from read, or that an exception
\* leaves read with, is outside read again.
ReaderIdle == [pc |-> "idle", t |-> 0, calls |-> <<>>, exc |-> "none", sum |-> 0]

\* The next statement of AutoRefreshGetter.read for a thread at rd.pc, at
\* time.time() = t with the file as it is: the getter and the thread
\* afterwards.
AutoRefreshGetter_read_step(ldr, rd, file, t) ==
    LET At(l, r, pc) == [loader |-> l, reader |-> [r EXCEPT !.pc = pc]]
        Called(cs) == [rd EXCEPT !.calls = @ \o cs]
        Fails(l, r, exc) == At(l, [r EXCEPT !.exc = exc], "except")
        Gate(r) ==
            IF ldr.next_load_s >= t THEN At(ldr, r, "serve")
            ELSE At(ldr, r, "load_required")
        Required(r) ==
            IF r.raised # "none" THEN Fails(ldr, Called(<<"load_required">>), r.raised)
            ELSE IF ~r.value THEN At(ldr, Called(<<"load_required">>), "serve")
            ELSE At(ldr, Called(<<"load_required">>), "is_enabled")
        Loaded(r) ==
            IF r.raised # "none" THEN Fails(r.loader, Called(r.calls), r.raised)
            ELSE At(r.loader, Called(r.calls), "stamp")
    IN CASE rd.pc = "idle" ->
                Gate([ReaderIdle EXCEPT !.t = t])
         [] rd.pc = "load_required" ->
                Required(FileFetcher_load_required(ldr, file))
         [] rd.pc = "is_enabled" ->
                IF is_enabled(ldr) THEN At(ldr, Called(<<"is_enabled">>), "load")
                ELSE At(ldr, Called(<<"is_enabled">>), "serve")
         [] rd.pc = "load" ->
                Loaded(FileFetcher_load(ldr, file))
         [] rd.pc = "stamp" ->
                At([ldr EXCEPT !.last_successful_load = rd.t],
                   [rd EXCEPT !.sum = ldr.next_load_s + rd.t + ldr.refresh_interval_s],
                   "store")
         [] rd.pc = "store" ->
                At([ldr EXCEPT !.next_load_s = rd.sum], rd, "serve")
         [] rd.pc = "except" ->
                IF rd.exc \in Caught
                THEN At(AutoRefreshGetter_except(ldr, rd.exc, rd.t), rd, "serve")
                ELSE At(ldr, ReaderIdle, "idle")
         [] rd.pc = "serve" ->
                At(ldr, ReaderIdle, "idle")

\* One FileLayerLoader read by the threads, the file absent or written.
RaceInit ==
    /\ ChainIdle
    /\ SmartIdle
    /\ CacheIdle
    /\ now = StartTime
    /\ remote \in {File(FALSE, 0, <<"1">>, TRUE), File(TRUE, 1, <<"1">>, TRUE)}
    /\ \E c \in Constructors, refresh \in RefreshIntervals, retry \in RetryIntervals,
          p \in Policies :
          loader = AutoRefreshGetter(c, refresh, retry, p.removal, p.fetch, p.load, TRUE)
    /\ r_read = Unread
    /\ readers = [i \in Readers |-> ReaderIdle]
    /\ constructed = {}

\* The clock moves on between reads.
RaceTick ==
    /\ \A i \in Readers : readers[i].pc = "idle"
    /\ now < MaxRaceTime
    /\ Tick

\* Thread i runs its next statement. constructed gains the layer the
\* constructor returns when the statement is the load of a readable file
\* that it can build a layer from.
ReaderStep(i) ==
    LET Stepped(r) ==
            /\ loader' = r.loader
            /\ readers' = [readers EXCEPT ![i] = r.reader]
        built == layer_constructor(loader, remote.content)
    IN /\ Stepped(AutoRefreshGetter_read_step(loader, readers[i], remote, now))
       /\ constructed' =
              IF /\ readers[i].pc = "load"
                 /\ remote.exists /\ remote.readable
                 /\ built.raised = "none"
              THEN constructed \cup {built.value}
              ELSE constructed
       /\ UNCHANGED <<now, cache, source, c_read, remote, r_read, chain_vars, smart_vars>>

RaceNext ==
    \/ RaceTick
    \/ \E content \in Contents : WriteFile(content)
    \/ Unlink
    \/ \E i \in Readers : ReaderStep(i)

RaceSpec == RaceInit /\ [][RaceNext]_vars

---------------------------------------------------------------------------
(* Claims about the chain. *)

IsFound(r) == r.found = RR_Found

IsStop(r) == r.found = RR_NotFound /\ r.cont = Cont_Stop

Looked == q_key # NoKey

\* The answer of the first layer of ls that is Found or NotFoundStop for key;
\* NullLayer's answer if there is none.
FirstDecisive(ls, key) ==
    LET D == {i \in 1..Len(ls) :
                 IsFound(Layer_get_item(ls[i], key)) \/ IsStop(Layer_get_item(ls[i], key))}
    IN IF D = {} THEN NullLayer_get_item(key) ELSE Layer_get_item(ls[Min(D)], key)

\* C1. Fallthrough invariant: the chain's result for K is L1's result if
\* that is Found or NotFoundStop, otherwise the result of the chain L2..Ln;
\* the empty chain yields not-found, a KeyError at the facade.
C1_Fallthrough ==
    Looked =>
        IF layers = <<>>
        THEN q_result.found = RR_NotFound /\ q_out.kind = "KeyError"
        ELSE LET r1 == Layer_get_item(layers[1], q_key) IN
             IF IsFound(r1) \/ IsStop(r1)
             THEN q_result = r1
             ELSE q_result = FirstDecisive(Tail(layers), q_key)

\* C1 witness: the top layer had no opinion and a lower layer answered.
C1_Witness ==
    /\ Looked
    /\ Len(layers) >= 2
    /\ ~IsFound(Layer_get_item(layers[1], q_key))
    /\ ~IsStop(Layer_get_item(layers[1], q_key))
    /\ IsFound(q_result)
    /\ q_out.kind = "value"

\* C2. When a queried layer returns NotFoundStop, the lookup ends there
\* with a not-found result: no layer beneath it is queried, even one that
\* would have found the key.
C2_StopShortCircuits ==
    Looked =>
        \A j \in 1..Len(q_trace) :
            IsStop(Layer_get_item(q_trace[j], q_key)) =>
                /\ j = Len(q_trace)
                /\ q_result = Layer_get_item(q_trace[j], q_key)
                /\ q_out.kind = "KeyError"

\* C2 witness: a layer stopped the lookup above a layer that finds the key.
C2_Witness ==
    /\ Looked
    /\ q_trace # <<>>
    /\ IsStop(Layer_get_item(q_trace[Len(q_trace)], q_key))
    /\ \E i \in (Len(q_trace) + 1)..Len(layers) : IsFound(Layer_get_item(layers[i], q_key))
    /\ q_out.kind = "KeyError"

\* The indexes of xs whose layer finds key.
Finders(xs, key) == {i \in 1..Len(xs) : IsFound(Layer_get_item(xs[i], key))}

\* The indexes of xs whose layer answers NotFoundStop for key.
Stoppers(xs, key) == {i \in 1..Len(xs) : IsStop(Layer_get_item(xs[i], key))}

\* The lookup went through xs from its first element on.
QueriedInOrder(xs) ==
    /\ Len(q_trace) <= Len(xs)
    /\ \A j \in 1..Len(q_trace) : q_trace[j] = xs[j]
    /\ (xs # <<>> => q_trace # <<>>)

\* C3 as stated: a chain built by layer_stack / layered_config queries the
\* list's first element first and its last element last, and when list
\* entries find a key the value of the one with the smallest index is
\* returned.
C3_ListOrder_Original ==
    (Looked /\ from_stack) =>
        /\ QueriedInOrder(stack_list)
        /\ Finders(stack_list, q_key) # {} =>
               /\ q_out.kind = "value"
               /\ q_out.value =
                      Layer_get_item(stack_list[Min(Finders(stack_list, q_key))], q_key).value

\* C3 amended: as stated, unless a list entry before the first finder
\* answers NotFoundStop for the key.
C3_ListOrder ==
    (Looked /\ from_stack) =>
        /\ QueriedInOrder(stack_list)
        /\ Finders(stack_list, q_key) # {} =>
               LET f == Min(Finders(stack_list, q_key)) IN
               (\A i \in Stoppers(stack_list, q_key) : i > f) =>
                   /\ q_out.kind = "value"
                   /\ q_out.value = Layer_get_item(stack_list[f], q_key).value

\* C3 witness: two list entries find the key with different values and the
\* lookup returned the value of the earlier one.
C3_Witness ==
    /\ Looked
    /\ from_stack
    /\ \E i, j \in Finders(stack_list, q_key) :
           /\ i < j
           /\ i = Min(Finders(stack_list, q_key))
           /\ Layer_get_item(stack_list[i], q_key).value
                  # Layer_get_item(stack_list[j], q_key).value
           /\ q_out = [kind |-> "value", value |-> Layer_get_item(stack_list[i], q_key).value]

\* C4 as stated: after any sequence of pushes a lookup tries the layers
\* from the most recently pushed to the first pushed; a key found by
\* pushed layers resolves to the value of the most recently pushed of them
\* (so a key found only by an earlier-pushed layer is still found).
C4_PushOrder_Original ==
    Looked =>
        /\ QueriedInOrder(reversed(pushed))
        /\ Finders(pushed, q_key) # {} =>
               /\ q_out.kind = "value"
               /\ q_out.value = Layer_get_item(pushed[Max(Finders(pushed, q_key))], q_key).value

\* C4 amended: as stated, unless a layer pushed after the most recently
\* pushed finder answers NotFoundStop for the key.
C4_PushOrder ==
    Looked =>
        /\ QueriedInOrder(reversed(pushed))
        /\ Finders(pushed, q_key) # {} =>
               LET f == Max(Finders(pushed, q_key)) IN
               (\A i \in Stoppers(pushed, q_key) : i < f) =>
                   /\ q_out.kind = "value"
                   /\ q_out.value = Layer_get_item(pushed[f], q_key).value

\* C4 witness: pushes only, a later push shadows an earlier one for the key
\* looked up, and the first pushed layer alone finds the other key.
C4_Witness ==
    /\ Looked
    /\ ~from_stack
    /\ Len(pushed) >= 2
    /\ Finders(pushed, q_key) = {1}
    /\ \E k \in ChainKeys : Cardinality(Finders(pushed, k)) >= 2
    /\ q_out = [kind |-> "value", value |-> Layer_get_item(pushed[1], q_key).value]

---------------------------------------------------------------------------
(* Claims about SmartLayer. *)

SmartLooked == s_key # NoKey

\* Found or NotFoundStop.
Decisive(resp) == resp.raised = "none" /\ (resp.found \/ resp.stop)

\* NotFoundContinue: Response.not_found, neither stop nor next-layer.
Continues(resp) ==
    resp.raised = "none" /\ ~resp.found /\ ~resp.stop /\ ~resp.next_layer

\* The registrations as (at, slot) pairs: slot 0 for an exact key, the
\* position in its list for a pattern.
ExactRegs == {<<k, 0>> : k \in DOMAIN constant_key_getters}

PatternRegs ==
    UNION {{<<key_pattern_getters[n][j].at, j>> : j \in 1..Len(key_pattern_getters[n])} :
               n \in DOMAIN key_pattern_getters}

\* Pattern at, read segment by segment, matches the segments segs: as many
\* segments, a wildcard against one non-empty segment, a literal against
\* an equal one.
SegmentsMatch(at, segs) ==
    LET ps == split(at) IN
    /\ Len(ps) = Len(segs)
    /\ \A m \in 1..Len(ps) :
           IF ps[m] = Wildcard THEN segs[m] # <<>> ELSE ps[m] = segs[m]

\* The reads of the last lookup as (at, slot) pairs.
Read == {<<s_calls[j].at, s_calls[j].slot>> : j \in 1..Len(s_calls)}

\* C5. Prefixes are tried from shortest to longest and the first read that
\* returns Found or NotFoundStop ends the search with that response: no
\* getter is read after it, so with decisive getters at 'a.b' and 'a.b.a' a
\* lookup of 'a.b.a' returns the former's answer and never reads the latter.
C5_FirstDecisiveWins ==
    SmartLooked =>
        /\ \A j \in 1..(Len(s_calls) - 1) :
               Len(s_calls[j].key) <= Len(s_calls[j + 1].key)
        /\ \A j \in 1..Len(s_calls) :
               Decisive(s_calls[j].resp) =>
                   /\ j = Len(s_calls)
                   /\ s_resp = s_calls[j].resp
                   /\ \A r \in ExactRegs \cup PatternRegs :
                          Len(split(r[1])) > Len(split(s_calls[j].key)) => r \notin Read

\* C5 witness: decisive getters at 'a.b' and 'a.b.a', 'a.b.a' looked up, the
\* getter at 'a.b' alone was read and its answer returned.
C5_Witness ==
    /\ SmartLooked
    /\ s_key = <<"a", ".", "b", ".", "a">>
    /\ {<<"a", ".", "b">>, <<"a", ".", "b", ".", "a">>} \subseteq DOMAIN constant_key_getters
    /\ constant_key_getters[<<"a", ".", "b">>].type = "Stop"
    /\ constant_key_getters[<<"a", ".", "b", ".", "a">>].type = "Constant"
    /\ Len(s_calls) = 1
    /\ s_calls[1].at = <<"a", ".", "b">>
    /\ s_resp = Response_not_found_stop

C7_LiteralBeforeWildcard ==
    SmartLooked =>
        \A j \in 1..Len(s_calls) :
            (s_calls[j].slot > 0 /\ s_calls[j].key \in DOMAIN constant_key_getters) =>
                \E e \in 1..(j - 1) :
                    /\ s_calls[e].slot = 0
                    /\ s_calls[e].at = s_calls[j].key
                    /\ s_calls[e].key = s_calls[j].key
                    /\ s_calls[e].rest = s_calls[j].rest
                    /\ ~Decisive(s_calls[e].resp)

\* C7 witness: 'a.b' and 'a.{}' both hold decisive getters, 'a.b.a' was
\* looked up, and the only read is the literal one, with rest = ['a'].
C7_Witness ==
    /\ SmartLooked
    /\ s_key = <<"a", ".", "b", ".", "a">>
    /\ <<"a", ".", "b">> \in DOMAIN constant_key_getters
    /\ 2 \in DOMAIN key_pattern_getters
    /\ Len(key_pattern_getters[2]) = 1
    /\ key_pattern_getters[2][1].at = <<"a", ".", "{", "}">>
    /\ key_pattern_getters[2][1].getter.type = "Stop"
    /\ s_calls = <<Call(<<"a", ".", "b">>, 0, <<"a", ".", "b">>, <<(<<"a">>)>>,
                        Response_found(<<"5">>))>>
    /\ s_resp = Response_found(<<"5">>)

\* C8. Every read gets, for some i, the first i segments of the looked-up
\* key joined by dots as its key and the list of the remaining segments as
\* its rest, whether an exact key (the key itself) or a pattern (of i
\* segments) was matched; the two together give back the looked-up key.
C8_PrefixAndRest ==
    SmartLooked =>
        LET segs == split(s_key) IN
        \A j \in 1..Len(s_calls) :
            LET c == s_calls[j] IN
            \E i \in 0..Len(segs) :
                /\ c.key = join(SubSeq(segs, 1, i))
                /\ c.rest = SubSeq(segs, i + 1, Len(segs))
                /\ join(SubSeq(segs, 1, i) \o c.rest) = s_key
                /\ IF c.slot = 0 THEN c.at = c.key ELSE Len(split(c.at)) = i
                /\ (c.slot > 0 \/ c.at # <<>>) => i >= 1

\* C8 witness: one lookup read an exact getter and a pattern getter, both
\* with a non-empty rest.
C8_Witness ==
    /\ SmartLooked
    /\ \E j, m \in 1..Len(s_calls) :
           /\ s_calls[j].slot = 0
           /\ s_calls[m].slot > 0
           /\ s_calls[j].rest # <<>>
           /\ s_calls[m].rest # <<>>
           /\ s_calls[j].key \o <<".">> \o join(s_calls[j].rest) = s_key
           /\ s_calls[m].key \o <<".">> \o join(s_calls[m].rest) = s_key

\* C9. Matching is segment-wise: a pattern getter is read only for the
\* prefix made of exactly as many leading key segments as the pattern has,
\* each non-empty, with every literal pattern segment equal to the key
\* segment in its place; a key with fewer segments is never matched.
C9_SegmentWise ==
    SmartLooked =>
        LET segs == split(s_key) IN
        \A j \in 1..Len(s_calls) :
            s_calls[j].slot > 0 =>
                LET ps == split(s_calls[j].at) IN
                /\ Len(ps) <= Len(segs)
                /\ s_calls[j].key = join(SubSeq(segs, 1, Len(ps)))
                /\ SegmentsMatch(s_calls[j].at, SubSeq(segs, 1, Len(ps)))

\* C9 witness: '{}.b' was matched against 'a.b.a', its wildcard standing
\* for the one segment 'a'.
C9_Witness ==
    /\ SmartLooked
    /\ s_key = <<"a", ".", "b", ".", "a">>
    /\ \E j \in 1..Len(s_calls) :
           /\ s_calls[j].slot > 0
           /\ s_calls[j].at = <<"{", "}", ".", "b">>
           /\ s_calls[j].key = <<"a", ".", "b">>
           /\ s_calls[j].rest = <<(<<"a">>)>>

\* C11. The empty key is matched only by a root ('') registration:
\* without one, a lookup of '' reads no getter and returns not-found
\* whatever else is registered; with one, every lookup reads the root
\* getter, first, with all the key's segments as rest.
C11_RootGetter ==
    SmartLooked =>
        IF <<>> \notin DOMAIN constant_key_getters
        THEN /\ s_key = <<>> => (s_calls = <<>> /\ s_resp = Response_not_found)
             /\ \A j \in 1..Len(s_calls) : s_calls[j].at # <<>>
        ELSE /\ s_calls # <<>>
             /\ s_calls[1].at = <<>>
             /\ s_calls[1].slot = 0
             /\ s_calls[1].key = <<>>
             /\ s_calls[1].rest = split(s_key)
             /\ s_calls[1].resp =
                    Getter_read(constant_key_getters[<<>>], <<>>, split(s_key),
                                context, LowerLayer)

\* C11 witness: a root getter without an answer was read with the segments
\* of 'a.b' as rest, before the getter registered at 'a.b'.
C11_Witness ==
    /\ SmartLooked
    /\ s_key = <<"a", ".", "b">>
    /\ Len(s_calls) = 2
    /\ s_calls[1].at = <<>>
    /\ s_calls[1].rest = <<(<<"a">>), (<<"b">>)>>
    /\ s_calls[2].at = <<"a", ".", "b">>

\* The getter a pattern read of the last lookup went to.
CallGetter(c) == key_pattern_getters[Len(split(c.at))][c.slot].getter

\* The key segments standing at the wildcards of pattern at, in order.
Captures(at, key) ==
    LET ps == split(at)
        ks == split(key)
        W == SelectSeq([m \in 1..Len(ps) |-> m], LAMBDA m : ps[m] = Wildcard)
    IN [n \in 1..Len(W) |-> ks[W[n]]]

\* The number a one-digit placeholder names.
PlaceholderIndex == ("1" :> 1) @@ ("2" :> 2)

\* Template t with every {n} replaced by the n-th capture.
RECURSIVE Substituted(_, _)
Substituted(t, caps) ==
    IF t = <<>> THEN <<>>
    ELSE IF /\ Len(t) >= 3 /\ t[1] = "{" /\ t[3] = "}"
            /\ t[2] \in DOMAIN PlaceholderIndex
            /\ PlaceholderIndex[t[2]] \in 1..Len(caps)
    THEN caps[PlaceholderIndex[t[2]]] \o Substituted(SubSeq(t, 4, Len(t)), caps)
    ELSE <<t[1]>> \o Substituted(Tail(t), caps)

\* C10. While a getter matched through a wildcard pattern is read, the
\* numeric placeholders of the template it expands resolve to the segments
\* captured by the pattern's wildcards: the read of a getter built with
\* default=T and expand_result=True, falling back on its default, returns
\* Found with T's {1}, {2}, ... replaced by the first, second, ... capture
\* ('{}.{}' with '{2}.{1}' on 'a.b' gives 'b.a').
C10_CapturesResolve ==
    SmartLooked =>
        \A j \in 1..Len(s_calls) :
            LET c == s_calls[j] IN
            (/\ c.slot > 0
             /\ CallGetter(c).type = "ExpansionGetter"
             /\ c.key \notin DOMAIN LowerLayer.map
             /\ \A e \in expansions(CallGetter(c).getter.getters[2].c) :
                    /\ Len(e) = 1
                    /\ e[1] \in DOMAIN PlaceholderIndex
                    /\ PlaceholderIndex[e[1]] <= Len(Captures(c.at, c.key)))
            => c.resp = Response_found(Substituted(CallGetter(c).getter.getters[2].c,
                                                   Captures(c.at, c.key)))

---------------------------------------------------------------------------
(* Claims about getters, checked on the reads of a Config lookup. *)

\* A lookup has been made through the facade.
Asked == q_call # NoCall

\* The getter a read of the last lookup went to.
ReadGetter(c) == IF c.slot = 0 THEN constant_key_getters[c.at] ELSE CallGetter(c)

\* The reads of the last lookup that went to a getter of class type.
ReadsOf(type) == {j \in 1..Len(s_calls) : ReadGetter(s_calls[j]).type = type}

\* What getter g answers when read with the arguments of read c.
Alone(g, c) == Getter_read(g, c.key, c.rest, context, below)

\* C12. GetterStack.read reads its getters in list order: the first
\* response that is Found or NotFoundStop is the stack's response, whatever
\* the getters behind it would do (they are not read, so one that raises
\* does no harm); if every getter answers NotFoundContinue, or the list is
\* empty, the stack answers NotFoundContinue.
C12_GetterStackOrder ==
    Asked =>
        \A j \in ReadsOf("GetterStack") :
            LET c == s_calls[j]
                gs == ReadGetter(c).getters
                D == {i \in 1..Len(gs) :
                          is_found(Alone(gs[i], c)) \/ must_stop(Alone(gs[i], c))}
            IN IF D = {}
               THEN (\A i \in 1..Len(gs) : ~has_raised(Alone(gs[i], c)))
                        => c.resp = Response_not_found
               ELSE (\A i \in 1..(Min(D) - 1) : ~has_raised(Alone(gs[i], c)))
                        => c.resp = Alone(gs[Min(D)], c)

\* C12 witness: a stack whose second getter raises when read answered with
\* the Found or NotFoundStop of its first getter.
C12_Witness ==
    /\ Asked
    /\ \E j \in ReadsOf("GetterStack") :
           LET c == s_calls[j]
               gs == ReadGetter(c).getters
           IN /\ Len(gs) = 2
              /\ has_raised(Alone(gs[2], c))
              /\ c.resp = Alone(gs[1], c)
              /\ must_stop(c.resp)

\* The top layer has the stack [Env(FOO), Stop] at 'a.b'.
EnvOrStop ==
    /\ KeyAB \in DOMAIN constant_key_getters
    /\ constant_key_getters[KeyAB] = GetterStack(<<Env("FOO"), Stop>>)

\* Some layer beneath has a value for key.
BelowProvides(key) == is_found(get_item(below, key, context, NullLayer))

ValuesWithDefault ==
    {g \in Values : LET v == IF g.type = "Transform" THEN g.getter ELSE g
                    IN v.getters[Len(v.getters)].type = "Constant"}

Gives(v) == [kind |-> "value", value |-> v]

Misses == IF q_call = GetItemCall THEN [kind |-> "KeyError", value |-> None]
          ELSE [kind |-> "value", value |-> q_call.default]

\* The outcome of a lookup of 'a.b' that takes the first value of: the
\* environment variables names in order, 'a.b' in the layers beneath, the
\* default d. With heed_stop, a NotFoundStop from beneath ends it.
InOrder(names, d, heed_stop) ==
    LET S == {n \in 1..Len(names) : names[n] \in DOMAIN context.environ}
        b == get_item(below, KeyAB, context, NullLayer)
    IN IF S # {} THEN Gives(context.environ[names[Min(S)]])
       ELSE IF is_found(b) THEN Gives(b.value)
       ELSE IF heed_stop /\ must_stop(b) THEN Misses
       ELSE IF d # NoDefault THEN Gives(d)
       ELSE Misses

\* The lookup was of 'a.b', registered as value(envar=e, envars=es,
\* default=d, stop=st).
AskedValue(e, es, d, st) ==
    /\ Asked
    /\ q_key = KeyAB
    /\ KeyAB \in DOMAIN constant_key_getters
    /\ constant_key_getters[KeyAB] = value(NotGiven, e, es, NotGiven, d, st, FALSE)

\* The parameters value is called with.
ValueParameters ==
    [e : {NotGiven, "FOO"}, es : {<<>>, <<"BAR">>},
     ds : {[default |-> NoDefault, stop |-> FALSE],
           [default |-> NoDefault, stop |-> TRUE],
           [default |-> <<"7">>, stop |-> FALSE]}]

OtherFields(resp) == [f \in DOMAIN resp \ {"value"} |-> resp[f]]

\* C16. Transform(f, inner).read applies f to Found responses only: a
\* NotFoundContinue or NotFoundStop of inner is returned as it is, f not
\* having been called (a call would have raised here), and a Found(v) of
\* inner comes back as Found(f(v)), its other fields as inner gave them.
C16_TransformOnlyFound ==
    Asked =>
        \A j \in ReadsOf("Transform") :
            LET c == s_calls[j]
                g == ReadGetter(c)
                inner == Alone(g.getter, c)
            IN /\ (~has_raised(inner) /\ ~is_found(inner)) => c.resp = inner
               /\ (is_found(inner) /\ ~apply(g.f, inner.value).raised) =>
                      /\ is_found(c.resp)
                      /\ c.resp.value = apply(g.f, inner.value).value
                      /\ OtherFields(c.resp) = OtherFields(inner)

\* C16 witness: a Transform whose function raises on every call was read
\* over a getter that stops, and answered NotFoundStop.
C16_Witness ==
    /\ Asked
    /\ \E j \in ReadsOf("Transform") :
           /\ ReadGetter(s_calls[j]) = Transform("oops", Stop)
           /\ s_calls[j].resp = Response_not_found_stop

\* A Transform's function raised on a found value during the last lookup,
\* outside any IgnoreTransformErrors.
TransformFailed == Asked /\ q_result.raised = "exceptions.ValueTransformException"

\* C17. When a Transform's function raises on a found value, the failure
\* reaches the facade, and both c[key] and c.get(key), with or without a
\* default, raise a value error instead of KeyError or the default.
C17_TransformFailureIsValueError ==
    TransformFailed => q_out.kind = "ValueError"

\* C18. IgnoreTransformErrors(g).read turns a value-transform failure
\* raised inside g into NotFoundContinue and returns every response of g
\* as it is; in a GetterStack the getter that follows is then read and its
\* answer returned.
C18_IgnoreTransformErrors ==
    Asked =>
        /\ \A j \in ReadsOf("IgnoreTransformErrors") :
               LET c == s_calls[j]
                   inner == Alone(ReadGetter(c).getter, c)
               IN c.resp = IF inner.raised = "exceptions.ValueTransformException"
                           THEN Response_not_found
                           ELSE inner
        /\ \A j \in ReadsOf("GetterStack") :
               LET c == s_calls[j]
                   gs == ReadGetter(c).getters
               IN (/\ Len(gs) = 2
                   /\ gs[1].type = "IgnoreTransformErrors"
                   /\ Alone(gs[1].getter, c).raised = "exceptions.ValueTransformException")
                  => c.resp = Alone(gs[2], c)

\* C18 witness: the stack of IgnoreTransformErrors over a Transform whose
\* function raises, and Constant('6'), was read and the lookup gave '6'.
C18_Witness ==
    /\ Asked
    /\ q_key = KeyAB
    /\ KeyAB \in DOMAIN constant_key_getters
    /\ constant_key_getters[KeyAB] =
           GetterStack(<<IgnoreTransformErrors(Transform("oops", Constant(<<"5">>))),
                         Constant(<<"6">>)>>)
    /\ q_out = Gives(<<"6">>)

---------------------------------------------------------------------------
(* Claims about the facade. *)

\* C19. At the facade a key whose resolution through the layers ends
\* not-found, by a stop or by running out of layers, raises KeyError from
\* c[key] and returns the caller's default, None if left out, from
\* c.get(key, default); a key that is found returns its value from both,
\* whatever the default.
C19_StrictAndPermissive ==
    (Looked /\ q_call # NoCall) =>
        LET r == FirstDecisive(layers, q_key) IN
        IF IsFound(r) THEN q_out = [kind |-> "value", value |-> r.value]
        ELSE IF q_call = GetItemCall THEN q_out = [kind |-> "KeyError", value |-> None]
        ELSE q_out = [kind |-> "value", value |-> q_call.default]

\* C19 witness: a layer stopped the search above a layer that has the key,
\* and c.get(key, 'd') returned 'd'.
C19_Witness ==
    /\ Looked
    /\ q_call = GetCall(<<"d">>)
    /\ IsStop(FirstDecisive(layers, q_key))
    /\ \E i \in 1..Len(layers) : IsFound(Layer_get_item(layers[i], q_key))
    /\ q_out = [kind |-> "value", value |-> <<"d">>]

---------------------------------------------------------------------------
(* Claims about expansion. *)

\* helpers.expand has been called for the last lookup.
Expanding == Asked /\ expanded # NoExpansion

\* The template it was called with: the key for KeyExpansionLayer, the
\* value found for ExpansionGetter.
Template == IF s_calls = <<>> THEN q_key ELSE constant_key_getters[KeyAB].getter.c

\* Placeholder e of the key looked up can be resolved: a number has a
\* capture, a name is found in the layers beneath.
Resolves(e) ==
    IF is_digit_match(e)
    THEN context.has_globs /\ e \in DOMAIN context.globs
    ELSE is_found(get_item(below, e, context, NullLayer))

\* What placeholder e resolves to.
Resolution(e) ==
    IF is_digit_match(e) THEN context.globs[e]
    ELSE get_item(below, e, context, NullLayer).value

\* Template t with every placeholder replaced by what it resolves to, in
\* one pass from the left.
RECURSIVE Filled(_)
Filled(t) ==
    IF t = <<>> THEN <<>>
    ELSE LET Q == {q \in 2..Len(t) : t[q] = "}"} IN
         IF t[1] = "{" /\ Q # {} /\ Min(Q) > 2
         THEN Resolution(SubSeq(t, 2, Min(Q) - 1)) \o Filled(SubSeq(t, Min(Q) + 1, Len(t)))
         ELSE <<t[1]>> \o Filled(Tail(t))

\* C20. Expansion is all-or-nothing. If any placeholder of the template
\* cannot be resolved (not found or stopped beneath, or a number without a
\* capture), expand returns no value and the caller reports not-found;
\* never a string with only some placeholders replaced. If all resolve,
\* every occurrence of every placeholder is replaced.
C20_AllOrNothing ==
    Expanding =>
        IF \E e \in expansions(Template) : ~Resolves(e)
        THEN /\ expanded = [raised |-> "none", value |-> None]
             /\ ~has_raised(s_resp) /\ ~is_found(s_resp)
             /\ q_out.kind = "KeyError"
        ELSE expanded = [raised |-> "none", value |-> Filled(Template)]

\* The last lookup went through KeyExpansionLayer, with a key whose
\* placeholders are all names.
ExpandedNamedKey ==
    /\ Expanding
    /\ s_calls = <<>>
    /\ \A e \in expansions(q_key) : ~is_digit_match(e)

\* C21. KeyExpansionLayer resolves the placeholders of the key in the
\* layers beneath it and looks the expanded key up in those layers: its
\* answer is theirs for the expanded key ('{a}.{b}' with a=foo, b=bar
\* beneath answers as 'foo.bar' does), a key without placeholders is looked
\* up as it is, and a key with a placeholder the layers beneath cannot
\* resolve is not found.
C21_KeyExpansion ==
    ExpandedNamedKey =>
        IF \E e \in expansions(q_key) : ~Resolves(e)
        THEN s_resp = Response_not_found /\ q_out.kind = "KeyError"
        ELSE /\ s_resp = get_item(below, Filled(q_key), context, NullLayer)
             /\ (expansions(q_key) = {} => expanded.value = q_key)

\* C21 witness: '{a}.{b}' was looked up with a=foo and b=bar beneath and
\* gave the value of 'foo.bar'.
C21_Witness ==
    /\ ExpandedNamedKey
    /\ q_key = <<"{", "a", "}", ".", "{", "b", "}">>
    /\ expanded.value = Foo \o <<".">> \o Bar
    /\ q_out = Gives(<<"1">>)

---------------------------------------------------------------------------
(* Claims about caches, checked on the last lookup through the CacheLayer. *)

\* The key of the last lookup had a found entry in the cache, stored from a
\* response that carried no expiry of its own.
CachedByTtl ==
    /\ c_read.key # NoKey
    /\ c_read.key \in DOMAIN c_read.before
    /\ is_found(c_read.before[c_read.key])
    /\ ~c_read.prior[c_read.key].own

\* C22: with a positive TTL T, a key whose entry was fetched at t0 is
\* served from the cache, the wrapped source not invoked, by every read
\* at a time t < t0 + T; a read at t >= t0 + T invokes the wrapped source
\* again and caches what it finds.
C22_CacheTtl ==
    CachedByTtl =>
        LET key == c_read.key
            t0 == c_read.prior[key].at
        IN IF c_read.at < t0 + cache.ttl_s
           THEN /\ ~c_read.invoked
                /\ c_read.resp = c_read.before[key]
                /\ cache.cache[key] = c_read.before[key]
                /\ c_read.fetched[key].at = t0
           ELSE /\ c_read.invoked
                /\ is_found(c_read.below) =>
                       /\ cache.cache[key] = c_read.resp
                       /\ c_read.resp.value = c_read.below.value
                       /\ c_read.fetched[key].at = c_read.at

\* A Counter read at t0 is read again two ticks after its entry expired:
\* the source is invoked a second time and 2 is cached.
C22_Witness ==
    /\ CachedByTtl
    /\ source[c_read.key].type = "Counter"
    /\ c_read.at = c_read.prior[c_read.key].at + cache.ttl_s + 1
    /\ c_read.invoked
    /\ c_read.resp.value = <<"2">>
    /\ cache.cache[c_read.key] = c_read.resp

\* The TTL an entry put in the cache is stamped with.
TtlOf(entry) == IF is_found(entry) THEN cache.ttl_s ELSE cache.negative_ttl_s

\* C23: a lookup of one key leaves the entry of every other key as it was
\* and adds no entry for another key, and the expiry of every entry the
\* cache stamped is the time that key was fetched plus the TTL.
C23_PerKey ==
    c_read.key # NoKey =>
        /\ \A k \in DOMAIN c_read.before \ {c_read.key} :
               k \in DOMAIN cache.cache /\ cache.cache[k] = c_read.before[k]
        /\ DOMAIN cache.cache \subseteq DOMAIN c_read.before \cup {c_read.key}
        /\ \A k \in DOMAIN cache.cache :
               ~c_read.fetched[k].own =>
                   cache.cache[k].expire = c_read.fetched[k].at + TtlOf(cache.cache[k])

\* With TTL 3, a fetched at 1 and b at 2: the lookup of a at 4 fetches a
\* again while the entry of b, 11 until 5, stays.
C23_Witness ==
    /\ c_read.key = <<"a">>
    /\ cache.ttl_s = 3
    /\ c_read.at = 4
    /\ <<"a">> \in DOMAIN c_read.prior
    /\ c_read.prior[<<"a">>].at = 1
    /\ c_read.invoked
    /\ c_read.resp.value = <<"2">>
    /\ <<"b">> \in DOMAIN c_read.before
    /\ cache.cache[<<"b">>] = c_read.before[<<"b">>]
    /\ cache.cache[<<"b">>].value = <<"1", "1">>
    /\ cache.cache[<<"b">>].expire = 5

\* The last lookup asked the lower layer, which did not find the key.
Missed == c_read.key # NoKey /\ c_read.invoked /\ ~is_found(c_read.below)

\* C24: a miss is stored only under a negative TTL above zero, and then
\* until now + negative_ttl; under the negative TTL 0 a miss is returned
\* and not stored, the cache holds no miss, and a lookup of a key that
\* missed before asks the lower layer and returns what it finds now. A
\* CacheGetter holds a miss only under a negative TTL above zero, and for
\* no longer than that.
C24_NegativeTtl ==
    /\ Missed =>
           IF cache.negative_ttl_s > 0
           THEN /\ c_read.key \in DOMAIN cache.cache
                /\ cache.cache[c_read.key] = c_read.resp
                /\ ~is_found(c_read.resp)
                /\ c_read.below.expire = NoExpire =>
                       c_read.resp.expire = c_read.at + cache.negative_ttl_s
           ELSE cache.cache = c_read.before /\ c_read.resp = c_read.below
    /\ cache.negative_ttl_s = 0 =>
           /\ \A k \in DOMAIN cache.cache : is_found(cache.cache[k])
           /\ c_read.missed_before =>
                  /\ c_read.invoked
                  /\ is_found(c_read.below) =>
                         is_found(c_read.resp) /\ c_read.resp.value = c_read.below.value
    /\ \A k \in DOMAIN source :
           source[k].type = "CacheGetter" =>
               \A j \in DOMAIN source[k].cache :
                   ~is_found(source[k].cache[j]) =>
                       /\ source[k].negative_ttl_s > 0
                       /\ source[k].cache[j].expire <= now + source[k].negative_ttl_s

\* Under the negative TTL 0, b was looked up and missed, a Counter(10) was
\* registered for it, and the next lookup of b finds 11.
C24_Witness ==
    /\ cache.negative_ttl_s = 0
    /\ c_read.key = <<"b">>
    /\ c_read.missed_before
    /\ c_read.invoked
    /\ c_read.resp.value = <<"1", "1">>
    /\ c_read.before = <<>>

\* The last lookup asked the lower layer and stored its answer.
Stored ==
    /\ c_read.key # NoKey
    /\ c_read.invoked
    /\ is_found(c_read.below) \/ cache.negative_ttl_s > 0

\* C25: an answer of the lower layer that carries an expiry is stored and
\* returned as it is, and one without is stamped with now + TTL; an entry
\* is served, the lower layer not asked, exactly while now is before the
\* expiry it carries.
C25_OwnExpiry ==
    /\ Stored =>
           /\ c_read.key \in DOMAIN cache.cache
           /\ cache.cache[c_read.key] = c_read.resp
           /\ IF c_read.below.expire # NoExpire
              THEN c_read.resp = c_read.below
              ELSE c_read.resp = cache_until(c_read.below,
                                             c_read.at + TtlOf(c_read.below))
    /\ (c_read.key # NoKey /\ c_read.key \in DOMAIN c_read.before) =>
           IF c_read.at < c_read.before[c_read.key].expire
           THEN ~c_read.invoked /\ c_read.resp = c_read.before[c_read.key]
           ELSE c_read.invoked

\* Under TTL 2 a value its getter cached at 1 for four seconds is still
\* served at 4, past 1 + 2, and the lower layer is not asked.
C25_Witness ==
    /\ cache.ttl_s = 2
    /\ c_read.key = <<"a">>
    /\ c_read.at = 4
    /\ ~c_read.invoked
    /\ c_read.prior[<<"a">>].own
    /\ c_read.prior[<<"a">>].at = 1
    /\ c_read.resp.expire = 5
    /\ c_read.resp.value = <<"1">>

---------------------------------------------------------------------------
(* Claims about AutoRefreshGetter, checked on its last read. *)

\* The last read refreshed the layer.
Refreshed == r_read.outcome = "loaded"

\* C26: after every successful refresh at time t the layer just built is
\* the one served, and next_load_s, the next eligible check, is
\* t + refresh_interval_s.
C26_RefreshSchedule ==
    Refreshed =>
        /\ loader.loaded_layer.type = "ConstantLayer"
        /\ r_read.resp = ConstantLayer_get_item(loader.loaded_layer, RefreshKey)
        /\ loader.last_successful_load = r_read.at
        /\ loader.next_load_s = r_read.at + loader.refresh_interval_s

\* A read has been made.
WasRead == r_read.outcome # "none"

\* C27: a read at now < next_load_s serves the loaded layer and leaves the
\* fetcher and the getter alone; a read at now >= next_load_s makes a
\* refresh attempt; until a load has succeeded the layer is the null
\* layer and the key is not found.
C27_Gate ==
    /\ WasRead =>
           IF r_read.at < r_read.before_next
           THEN /\ r_read.outcome = "not due"
                /\ loader.loaded_layer = r_read.before
                /\ loader.next_load_s = r_read.before_next
                /\ r_read.resp = loaded_layer_get_item(loader, RefreshKey)
           ELSE r_read.outcome # "not due"
    /\ loader.last_successful_load = 0 =>
           /\ loader.loaded_layer = NullLayer
           /\ r_read.resp = NullLayer_get_item(RefreshKey)

\* The last read was due and found the file gone.
SourceMissing == r_read.outcome = "DataSourceMissing"

\* The layer the getter held before the last read is the one it holds now.
Kept == loader.loaded_layer = r_read.before

\* The getter holds the null layer and the last read found nothing.
Cleared ==
    /\ loader.loaded_layer.type = "NullLayer"
    /\ r_read.resp = NullLayer_get_item(RefreshKey)

\* C28: a due refresh that finds the source missing leaves the null layer
\* under clear_on_removal and the layer as it was otherwise, raises
\* nothing, answers from that layer, and sets next_load_s to
\* now + retry_interval_s.
C28_SourceMissing ==
    SourceMissing =>
        /\ IF loader.clear_on_removal THEN Cleared ELSE Kept
        /\ r_read.raised = "none"
        /\ r_read.resp = loaded_layer_get_item(loader, RefreshKey)
        /\ loader.next_load_s = r_read.at + loader.retry_interval_s

\* The file behind a loaded layer was removed: with clear_on_removal the
\* next due read finds nothing, well after an earlier refresh.
C28_Witness ==
    /\ SourceMissing
    /\ loader.clear_on_removal
    /\ r_read.before.type = "ConstantLayer"
    /\ r_read.before_next > 0
    /\ Cleared
    /\ loader.next_load_s = r_read.at + loader.retry_interval_s

\* C29: a due refresh that fails with a fetch failure or a load failure at
\* time t clears the layer under clear_on_fetch_failure or
\* clear_on_load_failure and keeps it otherwise, and sets next_load_s to
\* t + retry_interval_s, whatever came before.
C29_FailureBackoff ==
    /\ r_read.outcome = "FetchFailure" =>
           /\ IF loader.clear_on_fetch_failure THEN Cleared ELSE Kept
           /\ loader.next_load_s = r_read.at + loader.retry_interval_s
    /\ r_read.outcome = "converters.LoadFailure" =>
           /\ IF loader.clear_on_load_failure THEN Cleared ELSE Kept
           /\ loader.next_load_s = r_read.at + loader.retry_interval_s

\* C30: no exception raised while refreshing leaves AutoRefreshGetter.read:
\* every read returns the answer of the layer the getter holds, and an
\* error of an unforeseen class is handled as a fetch failure is, by
\* clear_on_fetch_failure.
C30_ErrorsContained ==
    /\ r_read.raised = "none"
    /\ WasRead => r_read.resp = loaded_layer_get_item(loader, RefreshKey)
    /\ (WasRead /\ r_read.outcome \notin
            Caught \cup {"not due", "not required", "not enabled", "loaded"}) =>
           IF loader.clear_on_fetch_failure THEN Cleared ELSE Kept

---------------------------------------------------------------------------
(* Claims about what a SmartLayer lookup does to the layer itself. *)

\* C36: every get_item leaves the registry as construction and __setitem__
\* made it: the exact-key map and the per-segment-count pattern lists hold
\* the same entries after the lookup as before it, also for a key whose
\* segment counts have no pattern registered.
C36_RegistryReadOnly ==
    [][(\E key \in SmartKeys : SmartGetItem(key)) =>
           UNCHANGED <<constant_key_getters, key_pattern_getters>>]_vars

\* C38: one get_item reads each registration at most once: no two reads of
\* the lookup are of the same registered getter, for every key, the empty
\* one included, and every registry, one with a root getter included.
C38_ReadAtMostOnce ==
    \A i, j \in DOMAIN s_calls :
        (s_calls[i].at = s_calls[j].at /\ s_calls[i].slot = s_calls[j].slot) => i = j

---------------------------------------------------------------------------
(* Claims about the order in which helpers.expand substitutes. *)

\* C40: what helpers.expand returned for the last template, one whose
\* placeholders are names, is what it returns for that template, over the
\* same layers, in a process that iterates the placeholder set in any other
\* order.
C40_OrderIndependent ==
    (Expanding /\ \A e \in expansions(Template) : ~is_digit_match(e)) =>
        \A o \in NameOrders :
            expand(Template, expansions(Template), [context EXCEPT !.set_order = o], below)
                = expanded

---------------------------------------------------------------------------
(* Claims about Graft. *)

\* C37: a read of a Graft answers found only if the grafted layer found
\* the key '.'.join(rest): when the grafted layer does not find it, the
\* graft's response is not found, never a found value of None.
C37_GraftFound ==
    \A i \in DOMAIN s_calls :
        LET call == s_calls[i]
            getter == constant_key_getters[call.at]
        IN (getter.type = "Graft" /\ is_found(call.resp)) =>
               /\ is_found(get_item(getter.layer, join(call.rest), context, LowerLayer))
               /\ call.resp.value # None

---------------------------------------------------------------------------
(* Claims about the reads of AutoRefreshGetter that do not reload. *)

\* The read made loads nothing: neither the fetcher's load nor the layer
\* constructor is among its calls.
NothingLoaded(calls) ==
    \A i \in DOMAIN calls : calls[i] \notin {"load", "layer_constructor"}

\* C33: a read for which a refresh is due while the source is unchanged
\* since the last load does not invoke the constructor and loads no data:
\* the layer and the fetcher's mtime stay as they were and the answer is
\* the previous layer's.
C33_UnchangedSource ==
    [][(RefreshRead /\ loader.next_load_s < now /\ SourceUnchanged) =>
           /\ NothingLoaded(r_read'.calls)
           /\ r_read'.calls # <<>>
           /\ loader'.loaded_layer = loader.loaded_layer
           /\ loader'.last_mtime = loader.last_mtime
           /\ r_read'.raised = "none"
           /\ r_read'.resp = loaded_layer_get_item(loader, RefreshKey)]_vars

\* C33 witness: a refresh was due over a layer loaded before, the fetcher
\* was asked and reported no change, and the layer's value was served.
C33_Witness ==
    /\ r_read.outcome = "not required"
    /\ r_read.before_next < r_read.at
    /\ r_read.calls = <<"load_required">>
    /\ r_read.before.type = "ConstantLayer"
    /\ loader.loaded_layer = r_read.before
    /\ r_read.resp = Tuple(RR_Found, Cont_Go, r_read.before.value)

\* The fetcher would report that a load is required: nothing was loaded
\* yet, or the file is there and newer than what was loaded last.
SourceChanged ==
    loader.last_mtime = 0 \/ (remote.exists /\ remote.mtime > loader.last_mtime)

\* C34: a read for which a refresh is due and required while is_enabled
\* answers false skips the fetch and the construction and serves the layer
\* loaded before, unchanged; and a getter whose predicate was false at
\* every read so far holds the null layer and finds no key, whatever the
\* source holds.
C34_Disabled ==
    [][RefreshRead =>
           /\ (loader.next_load_s < now /\ SourceChanged /\ ~loader.is_enabled) =>
                  /\ NothingLoaded(r_read'.calls)
                  /\ loader'.loaded_layer = loader.loaded_layer
                  /\ loader'.last_mtime = loader.last_mtime
                  /\ r_read'.raised = "none"
                  /\ r_read'.resp = loaded_layer_get_item(loader, RefreshKey)
           /\ r_read'.never_enabled =>
                  /\ loader'.loaded_layer = NullLayer
                  /\ r_read'.resp = NullLayer_get_item(RefreshKey)]_vars

\* C34 witness: with a layer loaded earlier and the file rewritten since, a
\* due read found the predicate false and served the earlier layer.
C34_Witness ==
    /\ r_read.outcome = "not enabled"
    /\ r_read.calls = <<"load_required", "is_enabled">>
    /\ r_read.before.type = "ConstantLayer"
    /\ loader.loaded_layer = r_read.before
    /\ remote.exists /\ remote.readable
    /\ remote.content # r_read.before.value
    /\ r_read.resp = Tuple(RR_Found, Cont_Go, r_read.before.value)

\* C35: after a due read at t that asked the fetcher and ended without a
\* reload (the source unchanged, or is_enabled false), a read before
\* t + refresh_interval_s calls neither the fetcher nor the predicate.
C35_OncePerInterval ==
    [][(/\ RefreshRead
        /\ r_read.outcome \in {"not required", "not enabled"}
        /\ now < r_read.at + loader.refresh_interval_s) =>
           r_read'.calls = <<>>]_vars

---------------------------------------------------------------------------
(* Claims about a lookup through a chain with a CacheLayer on top. *)

---------------------------------------------------------------------------
(* Claims about threads reading one AutoRefreshGetter. *)

\* The thread is inside read.
Reading(i) == readers[i].pc # "idle"

\* The thread has entered the fetcher's load during its read.
Fetching(i) == \E n \in DOMAIN readers[i].calls : readers[i].calls[n] = "load"

\* C31: of two threads that are inside read at the same time for a refresh
\* that is due, at most one calls the fetcher's load; the other serves the
\* current layer.
C31_OneFetcher ==
    \A i, j \in Readers :
        (i # j /\ Reading(i) /\ Reading(j)) => ~(Fetching(i) /\ Fetching(j))

\* C32: the loaded layer is at every moment the null layer or a layer the
\* constructor has returned; a statement at which the load fails leaves
\* it as it was, and the handler of a failed construction leaves it as it
\* was unless clear_on_load_failure makes it the null layer.
C32_LayerReplaced ==
    [][/\ loader'.loaded_layer \in {NullLayer} \cup constructed'
       /\ \A i \in Readers :
              /\ (readers[i].pc = "load" /\ readers'[i].pc = "except") =>
                     loader'.loaded_layer = loader.loaded_layer
              /\ (/\ readers[i].pc = "except"
                  /\ readers'[i].pc # "except"
                  /\ readers[i].exc = "converters.LoadFailure") =>
                     loader'.loaded_layer =
                         IF loader.clear_on_load_failure THEN NullLayer
                         ELSE loader.loaded_layer]_vars

\* C32 witness: while one thread is about to be served, the other's
\* construction has failed over a layer built by an earlier refresh, which
\* is still the loaded layer.
C32_Witness ==
    \E i, j \in Readers :
        /\ i # j
        /\ readers[i].pc = "except"
        /\ readers[i].exc = "converters.LoadFailure"
        /\ readers[j].pc = "serve"
        /\ loader.loaded_layer.type = "ConstantLayer"
        /\ loader.loaded_layer \in constructed

====
